---------------------------- MODULE Spec2Model ----------------------------
(***************************************************************************)
(* A model of the roommate-tasks application: the hosted backend's tables  *)
(* (users, households, household_members, household_invitations, tasks)   *)
(* under the composite-key schema of the migration scripts, and the        *)
(* screens of the client that read and write them.  Every await of a       *)
(* handler is one step: the backend executes the call and the handler      *)
(* runs on to its next await.                                              *)
(***************************************************************************)
EXTENDS Integers, Sequences, FiniteSets, TLC

VARIABLES
    users,                  \* users table: the ids that have a profile row
    households,             \* households table: rows [id, name, created_by]
    household_members,      \* rows [user_id, household_id, role, is_active]
    household_invitations,  \* rows [id, household_id, inviter_id, invitee_email, status]
    tasks,                  \* tasks table: rows keyed by id
    nextId,                 \* the next generated row id (gen_random_uuid)
    hscreen,                \* households screen of each client
    dscreen,                \* household detail screen of each client
    tscreen,                \* task detail screen
    myTasks,                \* My Tasks screen
    people,                 \* People screen
    auth,                   \* auth screen
    layout                  \* root layout (route guard) of each client

backendVars == <<users, households, household_members, household_invitations, tasks, nextId>>
screenVars == <<hscreen, dscreen, tscreen, myTasks, people, auth>>
vars == <<users, households, household_members, household_invitations, tasks, nextId,
          hscreen, dscreen, tscreen, myTasks, people, auth, layout>>

-----------------------------------------------------------------------------
(* Bounds and domains *)

MaxHouseholds == 1      \* generated household ids are 1..MaxHouseholds

Null == "null"       \* a null string, user id or alert

\* a text column holding NULL: no text has this value, "null" is not a
\* character
NullText == <<Null>>
NoId == 0            \* a null generated id
Users == {"u1", "u2", "u3"}
Clients == {"c1", "c2"}
Roles == {"admin", "member", "viewer"}

\* The authenticated user of each client's session.
SessionUser(c) == IF c = "c1" THEN "u1" ELSE "u2"

\* Text is a sequence of characters; an e-mail address is one token.
Email(u) == <<u>>

-----------------------------------------------------------------------------
(* String.prototype helpers used by the screens *)

IsSpace(ch) == ch = " "

RECURSIVE TrimStart(_)
TrimStart(s) ==
    IF s = <<>> THEN <<>>
    ELSE IF IsSpace(Head(s)) THEN TrimStart(Tail(s)) ELSE s

RECURSIVE TrimEnd(_)
TrimEnd(s) ==
    IF s = <<>> THEN <<>>
    ELSE IF IsSpace(s[Len(s)]) THEN TrimEnd(SubSeq(s, 1, Len(s) - 1)) ELSE s

\* s.trim()
Trim(s) == TrimEnd(TrimStart(s))

\* (mutant) the test without trim()
IsBlankNoTrim(s) == s = <<>>

\* !s.trim(): the "blank input" test of every form handler
IsBlank(s) == Trim(s) = <<>>


-----------------------------------------------------------------------------
(* The backend: household_members under the composite-key migration *)

\* Columns of household_members once the migration has dropped id.
MemberColumns == {"user_id", "household_id", "name", "role", "joined_at", "is_active"}

\* Column defaults the screens rely on when an insert leaves them out.
DefaultRole == "member"
DefaultActive == TRUE

\* The table has no row id any more; rid stands for the physical row, so that
\* two rows with equal columns remain two rows.
MemberRow(u, h, role, active) ==
    [rid |-> Cardinality(household_members) + 1,
     user_id |-> u, household_id |-> h, role |-> role, is_active |-> active]

HouseholdIds == {x.id : x \in households}

\* (mutant) the table without its key
NoMemberKeyCheck(row) == TRUE

\* PRIMARY KEY (user_id, household_id) / UNIQUE (user_id, household_id)
MemberKeyFree(row) ==
    \A m \in household_members :
        ~(m.user_id = row.user_id /\ m.household_id = row.household_id)

\* insert into household_members: cols are the columns the client names.
\* An unknown column or a key conflict is an error and adds no row.
MemberInsertAccepted(cols, row) ==
    /\ cols \subseteq MemberColumns
    /\ MemberKeyFree(row)

\* .from('household_members').select(...).eq(col, v)...: an unknown column in
\* the select list or in a filter is an error (data null).
MemberQueryOk(cols) == cols \subseteq MemberColumns

-----------------------------------------------------------------------------
(* Households screen: createHousehold in its three versions *)

Names == {<<>>, <<" ">>, <<"F">>, <<" ", "F">>}

\* rerr: the calls of the last onRefresh that returned an error; timers: the
\* poll intervals that are set; inflight: the fetchHouseholds calls that have
\* not returned; stale: the list on display was delivered by a call that a
\* later call had overtaken
HInit ==
    [pc |-> "idle", userId |-> Null, list |-> <<>>, name |-> <<>>,
     cur |-> Null, data |-> NoId, alert |-> Null, rerr |-> {},
     mounted |-> TRUE, timers |-> 0, inflight |-> <<>>, stale |-> FALSE]

HSet(c, r) == hscreen' = [hscreen EXCEPT ![c] = r]

\* the handler returns: its locals are gone; alert is the title of the
\* Alert.alert it showed last; newHouseholdName stays as typed
HDone(r, alert) ==
    [r EXCEPT !.pc = "idle", !.cur = Null, !.data = NoId, !.alert = alert]

\* The user presses a button only while no handler of theirs is between two
\* awaits, on either screen; handlers of different clients interleave freely.
UserReady(c) ==
    /\ hscreen[c].pc = "idle"
    /\ dscreen[c].pc = "idle"
    /\ dscreen[c].fpc = "idle"

\* useEffect getSession: setUserId(session.user.id)
GetSession(c) ==
    /\ hscreen[c].mounted
    /\ hscreen[c].pc = "idle"
    /\ hscreen[c].userId = Null
    /\ HSet(c, [hscreen[c] EXCEPT !.userId = SessionUser(c)])
    /\ UNCHANGED <<backendVars, dscreen, tscreen, myTasks, people, auth, layout>>

\* the households insert: a generated id, the name as typed
InsertHousehold(c, ok, after) ==
    IF ok
    THEN /\ nextId <= MaxHouseholds
         /\ households' = households \cup
                {[id |-> nextId, name |-> hscreen[c].name, created_by |-> hscreen[c].cur]}
         /\ nextId' = nextId + 1
         /\ HSet(c, [hscreen[c] EXCEPT !.pc = after, !.data = nextId])
    ELSE /\ HSet(c, HDone(hscreen[c], "Error creating household"))
         /\ UNCHANGED <<households, nextId>>

\* (mutant) the list is updated before the insert's result is looked at
InsertCreatorMemberOptimistic(c, ok, cols) ==
    LET row == MemberRow(hscreen[c].cur, hscreen[c].data, DefaultRole, DefaultActive) IN
    IF ok /\ MemberInsertAccepted(cols, row)
    THEN /\ household_members' = household_members \cup {row}
         /\ HSet(c, HDone([hscreen[c] EXCEPT !.name = <<>>,
                                               !.list = Append(@, hscreen[c].data)], "Success"))
    ELSE /\ HSet(c, HDone([hscreen[c] EXCEPT !.list = Append(@, hscreen[c].data)],
                         "Error joining household"))
         /\ UNCHANGED household_members

\* the household_members insert that follows, and the handler's tail
InsertCreatorMember(c, ok, cols) ==
    LET row == MemberRow(hscreen[c].cur, hscreen[c].data, DefaultRole, DefaultActive) IN
    IF ok /\ MemberInsertAccepted(cols, row)
    THEN /\ household_members' = household_members \cup {row}
         /\ HSet(c, HDone([hscreen[c] EXCEPT !.name = <<>>,
                                               !.list = Append(@, hscreen[c].data)], "Success"))
    ELSE /\ HSet(c, HDone(hscreen[c], "Error joining household"))
         /\ UNCHANGED household_members

\* auth/index.tsx createHousehold (the version with stats): the press
StatsCreatePress(c, name) ==
    /\ UserReady(c)
    /\ IF IsBlank(name)
       THEN HSet(c, HDone([hscreen[c] EXCEPT !.name = name], "Error"))
       ELSE IF hscreen[c].userId = Null
       THEN HSet(c, [hscreen[c] EXCEPT !.name = name, !.alert = Null, !.pc = "s_session"])
       ELSE HSet(c, [hscreen[c] EXCEPT !.name = name, !.alert = Null, !.pc = "s_lookup",
                        !.cur = hscreen[c].userId])
    /\ UNCHANGED <<backendVars, dscreen, tscreen, myTasks, people, auth, layout>>

\* getSession when userId is still null
StatsCreateSession(c, hasSession) ==
    /\ hscreen[c].pc = "s_session"
    /\ IF hasSession
       THEN HSet(c, [hscreen[c] EXCEPT !.pc = "s_lookup", !.cur = SessionUser(c),
                        !.userId = SessionUser(c)])
       ELSE HSet(c, HDone(hscreen[c], "Error"))
    /\ UNCHANGED <<backendVars, dscreen, tscreen, myTasks, people, auth, layout>>
\* (mutant) a lookup whose result is not acted on
StatsCreateLookupUnread(c, ok) ==
    /\ hscreen[c].pc = "s_lookup"
    /\ HSet(c, [hscreen[c] EXCEPT !.pc = "s_household"])
    /\ UNCHANGED <<backendVars, dscreen, tscreen, myTasks, people, auth, layout>>

\* users lookup by id, .single(): found, PGRST116 (no row), or another error
StatsCreateLookup(c, ok) ==
    /\ hscreen[c].pc = "s_lookup"
    /\ IF ~ok
       THEN HSet(c, HDone(hscreen[c], "Error"))
       ELSE IF hscreen[c].cur \in users
       THEN HSet(c, [hscreen[c] EXCEPT !.pc = "s_household"])
       ELSE HSet(c, [hscreen[c] EXCEPT !.pc = "s_newUser"])
    /\ UNCHANGED <<backendVars, dscreen, tscreen, myTasks, people, auth, layout>>

\* the users insert for a missing profile row
StatsCreateUser(c, hasSession, ok) ==
    /\ hscreen[c].pc = "s_newUser"
    /\ IF ~hasSession
       THEN /\ HSet(c, HDone(hscreen[c], "Error"))
            /\ UNCHANGED users
       ELSE IF ok /\ hscreen[c].cur \notin users
       THEN /\ users' = users \cup {hscreen[c].cur}
            /\ HSet(c, [hscreen[c] EXCEPT !.pc = "s_household"])
       ELSE /\ HSet(c, HDone(hscreen[c], "Error"))
            /\ UNCHANGED users
    /\ UNCHANGED <<households, household_members, household_invitations, tasks, nextId,
                   dscreen, tscreen, myTasks, people, auth, layout>>

StatsCreateHousehold(c, ok) ==
    /\ hscreen[c].pc = "s_household"
    /\ InsertHousehold(c, ok, "s_member")
    /\ UNCHANGED <<users, household_members, household_invitations, tasks,
                   dscreen, tscreen, myTasks, people, auth, layout>>

StatsCreateMember(c, ok) ==
    /\ hscreen[c].pc = "s_member"
    /\ InsertCreatorMember(c, ok, {"household_id", "user_id", "name"})
    /\ UNCHANGED <<users, households, household_invitations, tasks, nextId,
                   dscreen, tscreen, myTasks, people, auth, layout>>


\* part_003 createHousehold: blank name and missing user id both alert
V2CreatePress(c, name) ==
    /\ UserReady(c)
    /\ IF IsBlank(name)
       THEN HSet(c, HDone([hscreen[c] EXCEPT !.name = name], "Error"))
       ELSE IF hscreen[c].userId = Null
       THEN HSet(c, HDone(hscreen[c], "Error"))
       ELSE HSet(c, [hscreen[c] EXCEPT !.name = name, !.alert = Null, !.pc = "v2_household",
                        !.cur = hscreen[c].userId])
    /\ UNCHANGED <<backendVars, dscreen, tscreen, myTasks, people, auth, layout>>

V2CreateHousehold(c, ok) ==
    /\ hscreen[c].pc = "v2_household"
    /\ InsertHousehold(c, ok, "v2_member")
    /\ UNCHANGED <<users, household_members, household_invitations, tasks,
                   dscreen, tscreen, myTasks, people, auth, layout>>

V2CreateMember(c, ok) ==
    /\ hscreen[c].pc = "v2_member"
    /\ InsertCreatorMember(c, ok, {"household_id", "user_id"})
    /\ UNCHANGED <<users, households, household_invitations, tasks, nextId,
                   dscreen, tscreen, myTasks, people, auth, layout>>

\* households/index.tsx createHousehold: blank name or missing user id
\* returns without an alert
V3CreatePress(c, name) ==
    /\ UserReady(c)
    /\ IF IsBlank(name) \/ hscreen[c].userId = Null
       THEN HSet(c, HDone([hscreen[c] EXCEPT !.name = name], Null))
       ELSE HSet(c, [hscreen[c] EXCEPT !.name = name, !.alert = Null, !.pc = "v3_household",
                        !.cur = hscreen[c].userId])
    /\ UNCHANGED <<backendVars, dscreen, tscreen, myTasks, people, auth, layout>>

V3CreateHousehold(c, ok) ==
    /\ hscreen[c].pc = "v3_household"
    /\ InsertHousehold(c, ok, "v3_member")
    /\ UNCHANGED <<users, household_members, household_invitations, tasks,
                   dscreen, tscreen, myTasks, people, auth, layout>>

\* this version names the user column id, which the migration has dropped
V3CreateMember(c, ok) ==
    /\ hscreen[c].pc = "v3_member"
    /\ InsertCreatorMember(c, ok, {"household_id", "id"})
    /\ UNCHANGED <<users, households, household_invitations, tasks, nextId,
                   dscreen, tscreen, myTasks, people, auth, layout>>


-----------------------------------------------------------------------------
(* Household detail screen: fetchHouseholdData and the two inviteMember flows *)

InviteEmails == {<<" ">>, <<"u3">>, <<" ", "u3">>, <<"zz">>}
MemberNames == {<<" ">>, <<"M">>}

\* .from('users').select().eq('email', e).single(): the row, or Null
UserByEmail(e) ==
    IF \E u \in users : Email(u) = e
    THEN CHOOSE u \in users : Email(u) = e
    ELSE Null

\* rows of one household's tasks, newest first (.order('created_at', desc));
\* ids are generated in creation order
RECURSIVE NewestFirst(_)
NewestFirst(ids) ==
    IF ids = {} THEN <<>>
    ELSE LET m == CHOOSE x \in ids : \A y \in ids : y <= x
         IN <<m>> \o NewestFirst(ids \ {m})

TaskIdsOf(h) == NewestFirst({t.id : t \in {x \in tasks : x.household_id = h}})

ActiveMembersOf(h) ==
    {m \in household_members : m.household_id = h /\ m.is_active = TRUE}

\* ferr: the calls of the running fetch that returned an error; falert: the
\* fetch showed an alert; fafter: a call was issued after an error
DInit ==
    [id |-> NoId, userId |-> Null, pc |-> "idle", fpc |-> "idle",
     email |-> <<>>, mname |-> <<>>, role |-> "member", found |-> Null,
     household |-> NoId, membersData |-> {}, members |-> {}, taskList |-> <<>>,
     loading |-> TRUE, alert |-> Null,
     ferr |-> {}, falert |-> FALSE, fafter |-> FALSE, newTask |-> {},
     selectedAssignee |-> Null]

DSet(c, r) == dscreen' = [dscreen EXCEPT ![c] = r]

\* an invite handler returns: its captured inputs and locals are gone
DDone(r, alert) ==
    [r EXCEPT !.pc = "idle", !.email = <<>>, !.mname = <<>>, !.role = "member",
              !.found = Null, !.alert = alert]

\* a fetch returns (finally: setLoading(false))
FDone(r) == [r EXCEPT !.fpc = "idle", !.membersData = {}, !.loading = FALSE]

\* no handler of the screen is between two awaits
DQuiet(c) == dscreen[c].pc = "idle" /\ dscreen[c].fpc = "idle"

\* router.push(`/households/${item.id}`): the route parameter
DetailOpen(c, h) ==
    /\ dscreen[c].id = NoId
    /\ UserReady(c)
    /\ h \in HouseholdIds
    /\ DSet(c, [dscreen[c] EXCEPT !.id = h])
    /\ UNCHANGED <<backendVars, hscreen, tscreen, myTasks, people, auth, layout>>

\* a fetchHouseholdData call begins: nothing has failed in it yet
FetchStarted(r) ==
    [r EXCEPT !.fpc = "f_household", !.ferr = {}, !.falert = FALSE, !.fafter = FALSE]

\* getCurrentUser, then the [id, userId] effect calls fetchHouseholdData
DetailGetCurrentUser(c) ==
    /\ dscreen[c].id # NoId
    /\ dscreen[c].userId = Null
    /\ DQuiet(c)
    /\ DSet(c, FetchStarted([dscreen[c] EXCEPT !.userId = SessionUser(c)]))
    /\ UNCHANGED <<backendVars, hscreen, tscreen, myTasks, people, auth, layout>>

\* pull to refresh
DetailRefresh(c) ==
    /\ dscreen[c].id # NoId
    /\ dscreen[c].userId # Null
    /\ UserReady(c)
    /\ DSet(c, FetchStarted(dscreen[c]))
    /\ UNCHANGED <<backendVars, hscreen, tscreen, myTasks, people, auth, layout>>

\* a later call of the fetch is issued: note whether an error came before it
Issued(r) == [r EXCEPT !.fafter = (r.ferr # {})]

\* households select by id: an error alerts and ends the fetch
FetchHousehold(c, ok) ==
    /\ dscreen[c].fpc = "f_household"
    /\ IF ok /\ dscreen[c].id \in HouseholdIds
       THEN DSet(c, [dscreen[c] EXCEPT !.fpc = "f_members", !.household = dscreen[c].id])
       ELSE DSet(c, FDone([dscreen[c] EXCEPT !.ferr = @ \cup {dscreen[c].fpc}, !.falert = TRUE,
                                           !.alert = "Error"]))
    /\ UNCHANGED <<backendVars, hscreen, tscreen, myTasks, people, auth, layout>>

\* household_members select: an error is logged, members are cleared and the
\* fetch goes on to the tasks
FetchMembers(c, ok) ==
    /\ dscreen[c].fpc = "f_members"
    /\ LET r == Issued(dscreen[c])
           rows == ActiveMembersOf(dscreen[c].id) IN
       IF ~(ok /\ MemberQueryOk({"user_id", "name", "role", "joined_at", "is_active", "household_id"}))
       THEN DSet(c, [r EXCEPT !.fpc = "f_tasks", !.ferr = @ \cup {"f_members"}, !.members = {}])
       ELSE IF rows # {}
       THEN DSet(c, [r EXCEPT !.fpc = "f_users", !.membersData = rows])
       ELSE DSet(c, [r EXCEPT !.fpc = "f_tasks", !.members = {}])
    /\ UNCHANGED <<backendVars, hscreen, tscreen, myTasks, people, auth, layout>>

\* users select for the members' e-mails: an error is logged only
FetchUsers(c, ok) ==
    /\ dscreen[c].fpc = "f_users"
    /\ LET r == Issued(dscreen[c]) IN
       DSet(c, [r EXCEPT !.fpc = "f_tasks", !.ferr = IF ok THEN @ ELSE @ \cup {"f_users"},
                   !.members = {m.user_id : m \in r.membersData}])
    /\ UNCHANGED <<backendVars, hscreen, tscreen, myTasks, people, auth, layout>>

\* tasks select: an error is logged only; finally setLoading(false)
FetchTasks(c, ok) ==
    /\ dscreen[c].fpc = "f_tasks"
    /\ LET r == Issued(dscreen[c]) IN
       IF ok
       THEN DSet(c, FDone([r EXCEPT !.taskList = TaskIdsOf(r.id)]))
       ELSE DSet(c, FDone([r EXCEPT !.ferr = @ \cup {r.fpc}]))
    /\ UNCHANGED <<backendVars, hscreen, tscreen, myTasks, people, auth, layout>>


\* .eq('household_id', h).eq('user_id', u).single(): data is the row when
\* exactly one matches, and null (here: no row) otherwise
SingleMember(h, u) ==
    LET rows == {m \in household_members : m.household_id = h /\ m.user_id = u} IN
    IF Cardinality(rows) = 1 THEN rows ELSE {}

\* part_004 inviteMember (direct insert): the press and its three checks
DirectInvitePress(c, email, mname, role) ==
    /\ UserReady(c)
    /\ IF IsBlank(email)
       THEN DSet(c, DDone(dscreen[c], "Error"))
       ELSE IF IsBlank(mname)
       THEN DSet(c, DDone(dscreen[c], "Error"))
       ELSE IF dscreen[c].userId = Null \/ dscreen[c].id = NoId
       THEN DSet(c, DDone(dscreen[c], "Error"))
       ELSE DSet(c, [dscreen[c] EXCEPT !.pc = "i_user", !.alert = Null, !.email = email,
                        !.mname = mname, !.role = role])
    /\ UNCHANGED <<backendVars, hscreen, tscreen, myTasks, people, auth, layout>>

\* find the user by e-mail
DirectInviteUser(c, ok) ==
    /\ dscreen[c].pc = "i_user"
    /\ LET u == UserByEmail(Trim(dscreen[c].email)) IN
       IF ok /\ u # Null
       THEN DSet(c, [dscreen[c] EXCEPT !.pc = "i_check", !.found = u])
       ELSE DSet(c, DDone(dscreen[c], "Error"))
    /\ UNCHANGED <<backendVars, hscreen, tscreen, myTasks, people, auth, layout>>

\* the "already a member" check; only data is read, an error passes the check
DirectInviteCheck(c, ok) ==
    /\ dscreen[c].pc = "i_check"
    /\ LET existingMember ==
               IF ok /\ MemberQueryOk({"user_id", "household_id"})
               THEN SingleMember(dscreen[c].id, dscreen[c].found) ELSE {} IN
       IF existingMember # {}
       THEN DSet(c, DDone(dscreen[c], "Error"))
       ELSE DSet(c, [dscreen[c] EXCEPT !.pc = "i_insert"])
    /\ UNCHANGED <<backendVars, hscreen, tscreen, myTasks, people, auth, layout>>
\* (mutant) an insert that leaves the role to the column default
DirectInviteInsertDefaultRole(c, ok) ==
    /\ dscreen[c].pc = "i_insert"
    /\ LET row == MemberRow(dscreen[c].found, dscreen[c].id, DefaultRole, TRUE) IN
       IF ok /\ MemberInsertAccepted({"user_id", "household_id", "name", "is_active"}, row)
       THEN /\ household_members' = household_members \cup {row}
            /\ DSet(c, FetchStarted(DDone(dscreen[c], "Success")))
       ELSE /\ DSet(c, DDone(dscreen[c], "Error"))
            /\ UNCHANGED household_members
    /\ UNCHANGED <<users, households, household_invitations, tasks, nextId,
                   hscreen, tscreen, myTasks, people, auth, layout>>

\* the household_members insert; on success the form is reset and
\* fetchHouseholdData is called
DirectInviteInsert(c, ok) ==
    /\ dscreen[c].pc = "i_insert"
    /\ LET row == MemberRow(dscreen[c].found, dscreen[c].id, dscreen[c].role, TRUE) IN
       IF ok /\ MemberInsertAccepted({"user_id", "household_id", "name", "role", "is_active"}, row)
       THEN /\ household_members' = household_members \cup {row}
            /\ DSet(c, FetchStarted(DDone(dscreen[c], "Success")))
       ELSE /\ DSet(c, DDone(dscreen[c], "Error"))
            /\ UNCHANGED household_members
    /\ UNCHANGED <<users, households, household_invitations, tasks, nextId,
                   hscreen, tscreen, myTasks, people, auth, layout>>

-----------------------------------------------------------------------------
(* household_invitations and the invitation-flow inviteMember of part_005 *)

InvitationStatuses == {"pending", "accepted", "declined"}

InvitationRow(h, inviter, email, status) ==
    [id |-> Cardinality(household_invitations) + 1, household_id |-> h,
     inviter_id |-> inviter, invitee_email |-> email, status |-> status]

PendingFor(h, email) ==
    {i \in household_invitations :
        i.household_id = h /\ i.invitee_email = email /\ i.status = "pending"}

\* (mutant) the table without the partial unique index
NoPendingIndex(row) == TRUE

\* CREATE UNIQUE INDEX ... (household_id, invitee_email, status) WHERE status = 'pending'
PendingIndexFree(row) ==
    row.status = "pending" => PendingFor(row.household_id, row.invitee_email) = {}

\* CHECK (status IN ('pending', 'accepted', 'declined')): the column is
\* nullable, and a check passes on NULL
StatusCheck(row) == row.status = Null \/ row.status \in InvitationStatuses

\* the two foreign keys, the same in both scripts
InvitationKeys(row) ==
    /\ row.household_id \in HouseholdIds
    /\ row.inviter_id \in users

\* the table's constraints: the two foreign keys, the status check, the index
InvitationInsertAccepted(row) ==
    /\ InvitationKeys(row)
    /\ StatusCheck(row)
    /\ PendingIndexFree(row)

\* the rows of the table other than row id
Others(id) == {i \in household_invitations : i.id # id}

\* the PostgreSQL script on a row about to be written (inserted, or updated
\* in place of the row with its id)
PostgresAccepts(row) ==
    /\ InvitationKeys(row)
    /\ StatusCheck(row)
    /\ row.status = "pending" =>
           ~\E i \in Others(row.id) : /\ i.household_id = row.household_id
                                      /\ i.invitee_email = row.invitee_email
                                      /\ i.status = "pending"

\* status ENUM('pending', 'accepted', 'declined'), nullable, in strict mode
StatusEnum(row) == row.status = Null \/ row.status \in InvitationStatuses

\* UNIQUE KEY (household_id, invitee_email, status): over every status; a
\* unique key admits any number of NULLs
UniqueKeyFree(row) ==
    row.status # Null =>
        ~\E i \in Others(row.id) : /\ i.household_id = row.household_id
                                   /\ i.invitee_email = row.invitee_email
                                   /\ i.status = row.status

\* the MySQL script on a row about to be written
MySqlAccepts(row) ==
    /\ InvitationKeys(row)
    /\ StatusEnum(row)
    /\ UniqueKeyFree(row)

MaxRows == 3            \* rows of household_invitations

\* INSERT INTO household_invitations under the PostgreSQL script
SqlInsert(h, inviter, email, status) ==
    /\ Cardinality(household_invitations) < MaxRows
    /\ LET row == InvitationRow(h, inviter, email, status) IN
       /\ PostgresAccepts(row)
       /\ household_invitations' = household_invitations \cup {row}
    /\ UNCHANGED <<users, households, household_members, tasks, nextId, screenVars, layout>>

\* UPDATE household_invitations SET status = ... WHERE id = ...
SqlUpdate(id, status) ==
    /\ \E r \in household_invitations :
          /\ r.id = id
          /\ r.status # status
          /\ PostgresAccepts([r EXCEPT !.status = status])
          /\ household_invitations' =
                 (household_invitations \ {r}) \cup {[r EXCEPT !.status = status]}
    /\ UNCHANGED <<users, households, household_members, tasks, nextId, screenVars, layout>>

FlowInvitePress(c, email) ==
    /\ UserReady(c)
    /\ IF IsBlank(email)
       THEN DSet(c, DDone(dscreen[c], "Error"))
       ELSE IF dscreen[c].userId = Null \/ dscreen[c].id = NoId
       THEN DSet(c, DDone(dscreen[c], "Error"))
       ELSE DSet(c, [dscreen[c] EXCEPT !.pc = "n_user", !.alert = Null, !.email = email])
    /\ UNCHANGED <<backendVars, hscreen, tscreen, myTasks, people, auth, layout>>

FlowInviteUser(c, ok) ==
    /\ dscreen[c].pc = "n_user"
    /\ LET u == IF ok THEN UserByEmail(Trim(dscreen[c].email)) ELSE Null IN
       IF u # Null
       THEN DSet(c, [dscreen[c] EXCEPT !.pc = "n_check", !.found = u])
       ELSE DSet(c, DDone(dscreen[c], "Error"))
    /\ UNCHANGED <<backendVars, hscreen, tscreen, myTasks, people, auth, layout>>

\* this version selects column id of household_members
FlowInviteCheck(c, ok) ==
    /\ dscreen[c].pc = "n_check"
    /\ LET existingMember ==
               IF ok /\ MemberQueryOk({"id", "household_id", "user_id"})
               THEN SingleMember(dscreen[c].id, dscreen[c].found) ELSE {} IN
       IF existingMember # {}
       THEN DSet(c, DDone(dscreen[c], "Error"))
       ELSE DSet(c, [dscreen[c] EXCEPT !.pc = "n_pending"])
    /\ UNCHANGED <<backendVars, hscreen, tscreen, myTasks, people, auth, layout>>

\* the "invitation already exists" check, .single() again
FlowInvitePending(c, ok) ==
    /\ dscreen[c].pc = "n_pending"
    /\ LET rows == PendingFor(dscreen[c].id, Trim(dscreen[c].email))
           existingInvite == ok /\ Cardinality(rows) = 1 IN
       IF existingInvite
       THEN DSet(c, DDone(dscreen[c], "Error"))
       ELSE DSet(c, [dscreen[c] EXCEPT !.pc = "n_insert"])
    /\ UNCHANGED <<backendVars, hscreen, tscreen, myTasks, people, auth, layout>>
\* (mutant) an insert that consumes the invitation at once: the row is
\* written as accepted and the invited user joins the household
FlowInviteInsertAccepting(c, ok) ==
    /\ dscreen[c].pc = "n_insert"
    /\ LET row == InvitationRow(dscreen[c].id, dscreen[c].userId,
                                Trim(dscreen[c].email), "accepted") IN
       IF ok /\ InvitationInsertAccepted(row)
       THEN /\ household_invitations' = household_invitations \cup {row}
            /\ household_members' = household_members \cup
                   {MemberRow(dscreen[c].found, dscreen[c].id, DefaultRole, DefaultActive)}
            /\ DSet(c, DDone(dscreen[c], "Success"))
       ELSE /\ DSet(c, DDone(dscreen[c], "Error sending invitation"))
            /\ UNCHANGED <<household_invitations, household_members>>
    /\ UNCHANGED <<users, households, tasks, nextId,
                   hscreen, tscreen, myTasks, people, auth, layout>>

FlowInviteInsert(c, ok) ==
    /\ dscreen[c].pc = "n_insert"
    /\ LET row == InvitationRow(dscreen[c].id, dscreen[c].userId,
                                Trim(dscreen[c].email), "pending") IN
       IF ok /\ InvitationInsertAccepted(row)
       THEN /\ household_invitations' = household_invitations \cup {row}
            /\ DSet(c, DDone(dscreen[c], "Success"))
       ELSE /\ DSet(c, DDone(dscreen[c], "Error sending invitation"))
            /\ UNCHANGED household_invitations
    /\ UNCHANGED <<users, households, household_members, tasks, nextId,
                   hscreen, tscreen, myTasks, people, auth, layout>>



\* part_005 getCurrentUser, then the [id, userId] effect calls this version's
\* fetchHouseholdData
FlowGetCurrentUser(c) ==
    /\ dscreen[c].id # NoId
    /\ dscreen[c].userId = Null
    /\ DQuiet(c)
    /\ DSet(c, [FetchStarted([dscreen[c] EXCEPT !.userId = SessionUser(c)])
                   EXCEPT !.fpc = "g_household"])
    /\ UNCHANGED <<backendVars, hscreen, tscreen, myTasks, people, auth, layout>>

FlowFetchHousehold(c, ok) ==
    /\ dscreen[c].fpc = "g_household"
    /\ IF ok /\ dscreen[c].id \in HouseholdIds
       THEN DSet(c, [dscreen[c] EXCEPT !.fpc = "g_members", !.household = dscreen[c].id])
       ELSE DSet(c, FDone([dscreen[c] EXCEPT !.ferr = @ \cup {dscreen[c].fpc}, !.falert = TRUE,
                                           !.alert = "Error"]))
    /\ UNCHANGED <<backendVars, hscreen, tscreen, myTasks, people, auth, layout>>

\* this version selects id and the embedded users(...) of household_members;
\* an error is logged and members are left as they are
FlowFetchMembers(c, ok) ==
    /\ dscreen[c].fpc = "g_members"
    /\ LET r == Issued(dscreen[c]) IN
       IF ok /\ MemberQueryOk({"id", "name", "role", "joined_at", "is_active", "household_id"})
       THEN DSet(c, [r EXCEPT !.fpc = "g_tasks",
                        !.members = {m.user_id : m \in ActiveMembersOf(r.id)}])
       ELSE DSet(c, [r EXCEPT !.fpc = "g_tasks", !.ferr = @ \cup {"g_members"}])
    /\ UNCHANGED <<backendVars, hscreen, tscreen, myTasks, people, auth, layout>>

FlowFetchTasks(c, ok) ==
    /\ dscreen[c].fpc = "g_tasks"
    /\ LET r == Issued(dscreen[c]) IN
       IF ok
       THEN DSet(c, FDone([r EXCEPT !.taskList = TaskIdsOf(r.id)]))
       ELSE DSet(c, FDone([r EXCEPT !.ferr = @ \cup {r.fpc}]))
    /\ UNCHANGED <<backendVars, hscreen, tscreen, myTasks, people, auth, layout>>

-----------------------------------------------------------------------------
(* Task detail screen: fetchTaskData and toggleTaskStatus *)

MaxInFlight == 2        \* toggle presses whose update has not returned yet

Priorities == {"low", "medium", "high"}

TaskRow(id, h, title, details, status, assignee, creator, priority, due) ==
    [id |-> id, household_id |-> h, title |-> title, details |-> details,
     status |-> status, assignee |-> assignee, created_by |-> creator,
     priority |-> priority, due_date |-> due]

TaskIds == {t.id : t \in tasks}

\* task is the set holding the loaded row, empty while it is null;
\* inflight holds, per pending toggle, the status its update asks for;
\* saves holds the payload of a pending saveTask update, deleting the id
\* of a pending delete; prompt: the "Delete Task" dialog is open; gone: router.back() has left the screen
TInit ==
    [c \in Clients |->
        [id |-> NoId, pc |-> "idle", task |-> {}, household |-> NoId,
         loading |-> TRUE, editTitle |-> <<>>, editDetails |-> <<>>,
         inflight |-> <<>>, alert |-> Null,
         saves |-> {}, deleting |-> {}, gone |-> FALSE, editing |-> FALSE,
         prompt |-> FALSE]]

TSet(c, r) == tscreen' = [tscreen EXCEPT ![c] = r]

\* router.push(`/tasks/${item.id}`), and the [id] effect calls fetchTaskData
TaskOpen(c, t) ==
    /\ tscreen[c].id = NoId
    /\ TSet(c, [tscreen[c] EXCEPT !.id = t, !.pc = "t_task"])
    /\ UNCHANGED <<backendVars, hscreen, dscreen, myTasks, people, auth, layout>>

\* taskData.details || ''
OrEmpty(d) == IF d = NullText THEN <<>> ELSE d

\* tasks select by id, .single()
TaskFetchTask(c, ok) ==
    /\ tscreen[c].pc = "t_task"
    /\ LET rows == {t \in tasks : t.id = tscreen[c].id} IN
       IF ok /\ Cardinality(rows) = 1
       THEN LET t == CHOOSE x \in rows : TRUE IN
            TSet(c, [tscreen[c] EXCEPT !.pc = "t_household", !.task = rows,
                        !.editTitle = t.title, !.editDetails = OrEmpty(t.details)])
       ELSE TSet(c, [tscreen[c] EXCEPT !.pc = "idle", !.alert = "Error", !.loading = FALSE])
    /\ UNCHANGED <<backendVars, hscreen, dscreen, myTasks, people, auth, layout>>

\* households select by id: an error is logged only
TaskFetchHousehold(c, ok) ==
    /\ tscreen[c].pc = "t_household"
    /\ LET t == CHOOSE x \in tscreen[c].task : TRUE IN
       IF ok /\ t.household_id \in HouseholdIds
       THEN TSet(c, [tscreen[c] EXCEPT !.pc = "idle", !.household = t.household_id,
                        !.loading = FALSE])
       ELSE TSet(c, [tscreen[c] EXCEPT !.pc = "idle", !.loading = FALSE])
    /\ UNCHANGED <<backendVars, hscreen, dscreen, myTasks, people, auth, layout>>

\* the status button: the update is issued with !task.status of this render
TogglePress(c) ==
    /\ tscreen[c].task # {}
    /\ ~tscreen[c].gone
    /\ Len(tscreen[c].inflight) < MaxInFlight
    /\ LET t == CHOOSE x \in tscreen[c].task : TRUE IN
       TSet(c, [tscreen[c] EXCEPT !.inflight = Append(@, ~t.status)])
    /\ UNCHANGED <<backendVars, hscreen, dscreen, myTasks, people, auth, layout>>

\* (mutant) the update reuses the insert's payload defaults
UpdateStatusAndPriority(row, want) == [row EXCEPT !.status = want, !.priority = "medium"]

\* .update({ status: want }).eq('id', task.id) applied to one row
UpdateStatus(row, want) == [row EXCEPT !.status = want]

RemoveAt(q, i) == SubSeq(q, 1, i - 1) \o SubSeq(q, i + 1, Len(q))

\* the update of pending toggle i returns; on success
\* setTask(prev => ({ ...prev, status: !prev.status }))
ToggleRespond(c, i, ok) ==
    /\ i \in 1..Len(tscreen[c].inflight)
    /\ LET local == CHOOSE x \in tscreen[c].task : TRUE
           want == tscreen[c].inflight[i] IN
       IF ok
       THEN /\ tasks' = {IF t.id = local.id THEN UpdateStatus(t, want) ELSE t : t \in tasks}
            /\ TSet(c, [tscreen[c] EXCEPT !.inflight = RemoveAt(@, i),
                           !.task = {[local EXCEPT !.status = ~local.status]}])
       ELSE /\ TSet(c, [tscreen[c] EXCEPT !.inflight = RemoveAt(@, i), !.alert = "Error"])
            /\ UNCHANGED tasks
    /\ UNCHANGED <<users, households, household_members, household_invitations, nextId,
                   hscreen, dscreen, myTasks, people, auth, layout>>

-----------------------------------------------------------------------------
(* The life of a task: createTask of part_004, saveTask and deleteTask *)

MaxTaskId == 3          \* task ids are generated up to MaxTaskId

\* (mutant) an insert that files every task under the first household
NewTaskFirstHousehold(r, id) ==
    LET p == CHOOSE x \in r.newTask : TRUE IN
    TaskRow(id, 1, p.title, p.details, FALSE, p.assignee, r.userId, "medium", Null)

\* the insert payload of createTask: household_id is the route parameter
NewTask(r, id) ==
    LET p == CHOOSE x \in r.newTask : TRUE IN
    TaskRow(id, r.id, p.title, p.details, FALSE, p.assignee, r.userId, "medium", Null)

\* (mutant) an assignee picker that offers every user
SelectAnyUser(c, u) ==
    /\ u \in users \cup {Null}
    /\ u # dscreen[c].selectedAssignee
    /\ DSet(c, [dscreen[c] EXCEPT !.selectedAssignee = u])
    /\ UNCHANGED <<backendVars, hscreen, tscreen, myTasks, people, auth, layout>>

\* the assignee options: "Unassigned" and one button per entry of members
SelectAssignee(c, u) ==
    /\ u \in dscreen[c].members \cup {Null}
    /\ u # dscreen[c].selectedAssignee
    /\ DSet(c, [dscreen[c] EXCEPT !.selectedAssignee = u])
    /\ UNCHANGED <<backendVars, hscreen, tscreen, myTasks, people, auth, layout>>

\* the user has typed title and details and presses Create Task:
\* if (!newTaskTitle.trim() || !id || !userId) return;
CreateTaskPress(c, title, details) ==
    /\ UserReady(c)
    /\ nextId <= MaxTaskId
    /\ IF IsBlank(title) \/ dscreen[c].id = NoId \/ dscreen[c].userId = Null
       THEN UNCHANGED dscreen
       ELSE DSet(c, [dscreen[c] EXCEPT !.pc = "k_insert",
                        !.newTask = {[title |-> title, details |-> details,
                                      assignee |-> dscreen[c].selectedAssignee]}])
    /\ UNCHANGED <<backendVars, hscreen, tscreen, myTasks, people, auth, layout>>

\* the insert returns: setTasks(prev => [data, ...prev]) and an alert
CreateTaskInsert(c, ok) ==
    /\ dscreen[c].pc = "k_insert"
    /\ nextId <= MaxTaskId
    /\ LET row == NewTask(dscreen[c], nextId) IN
       IF ok
       THEN /\ tasks' = tasks \cup {row}
            /\ nextId' = nextId + 1
            /\ DSet(c, [dscreen[c] EXCEPT !.pc = "idle", !.newTask = {},
                           !.selectedAssignee = Null,
                           !.taskList = <<row.id>> \o @,
                           !.alert = IF row.assignee # Null
                                     THEN "Task Created & Assigned!" ELSE "Success"])
       ELSE /\ DSet(c, [dscreen[c] EXCEPT !.pc = "idle", !.newTask = {}, !.alert = "Error"])
            /\ UNCHANGED <<tasks, nextId>>
    /\ UNCHANGED <<users, households, household_members, household_invitations,
                   hscreen, tscreen, myTasks, people, auth, layout>>

\* .update({ title, details }).eq('id', task.id) applied to one row
UpdateTitleDetails(row, title, details) ==
    [row EXCEPT !.title = title, !.details = details]

\* the header button: setEditing(!editing)
EditToggle(c) ==
    /\ tscreen[c].task # {}
    /\ ~tscreen[c].gone
    /\ TSet(c, [tscreen[c] EXCEPT !.editing = ~@])
    /\ UNCHANGED <<backendVars, hscreen, dscreen, myTasks, people, auth, layout>>

\* the Cancel button of the edit form
EditCancel(c) ==
    /\ tscreen[c].task # {}
    /\ ~tscreen[c].gone
    /\ tscreen[c].editing
    /\ LET t == CHOOSE x \in tscreen[c].task : TRUE IN
       TSet(c, [tscreen[c] EXCEPT !.editing = FALSE, !.editTitle = t.title,
                   !.editDetails = OrEmpty(t.details)])
    /\ UNCHANGED <<backendVars, hscreen, dscreen, myTasks, people, auth, layout>>

\* (mutant) a save that writes the whole local row back
SaveRespondWholeRow(c, ok) ==
    /\ tscreen[c].saves # {}
    /\ LET local == CHOOSE x \in tscreen[c].task : TRUE
           p == CHOOSE x \in tscreen[c].saves : TRUE
           new == [local EXCEPT !.title = p.title, !.details = p.details] IN
       IF ok
       THEN /\ tasks' = {IF t.id = local.id THEN new ELSE t : t \in tasks}
            /\ TSet(c, [tscreen[c] EXCEPT !.saves = {}, !.task = {new},
                           !.editing = FALSE, !.alert = "Success"])
       ELSE /\ TSet(c, [tscreen[c] EXCEPT !.saves = {}, !.alert = "Error"])
            /\ UNCHANGED tasks
    /\ UNCHANGED <<users, households, household_members, household_invitations, nextId,
                   hscreen, dscreen, myTasks, people, auth, layout>>

\* the user edits the two fields of the edit form and presses Save:
\* if (!task || !editTitle.trim()) return;
SavePress(c, title, details) ==
    /\ tscreen[c].task # {}
    /\ ~tscreen[c].gone
    /\ tscreen[c].editing
    /\ tscreen[c].saves = {}
    /\ LET r == [tscreen[c] EXCEPT !.editTitle = title, !.editDetails = details] IN
       IF IsBlank(title)
       THEN TSet(c, r)
       ELSE TSet(c, [r EXCEPT !.saves = {[title |-> title, details |-> details]}])
    /\ UNCHANGED <<backendVars, hscreen, dscreen, myTasks, people, auth, layout>>

\* the update of the pending save returns
SaveRespond(c, ok) ==
    /\ tscreen[c].saves # {}
    /\ LET local == CHOOSE x \in tscreen[c].task : TRUE
           p == CHOOSE x \in tscreen[c].saves : TRUE IN
       IF ok
       THEN /\ tasks' = {IF t.id = local.id THEN UpdateTitleDetails(t, p.title, p.details)
                         ELSE t : t \in tasks}
            /\ TSet(c, [tscreen[c] EXCEPT !.saves = {},
                           !.task = {UpdateTitleDetails(local, p.title, p.details)},
                           !.editing = FALSE, !.alert = "Success"])
       ELSE /\ TSet(c, [tscreen[c] EXCEPT !.saves = {}, !.alert = "Error"])
            /\ UNCHANGED tasks
    /\ UNCHANGED <<users, households, household_members, household_invitations, nextId,
                   hscreen, dscreen, myTasks, people, auth, layout>>

\* (mutant) a delete button that asks nothing
DeletePressNoPrompt(c) ==
    /\ tscreen[c].task # {}
    /\ ~tscreen[c].gone
    /\ ~tscreen[c].prompt
    /\ tscreen[c].deleting = {}
    /\ TSet(c, [tscreen[c] EXCEPT !.deleting = {t.id : t \in tscreen[c].task}])
    /\ UNCHANGED <<backendVars, hscreen, dscreen, myTasks, people, auth, layout>>

\* deleteTask: if (!task) return; then the "Delete Task" dialog opens
DeletePress(c) ==
    /\ tscreen[c].task # {}
    /\ ~tscreen[c].gone
    /\ ~tscreen[c].prompt
    /\ tscreen[c].deleting = {}
    /\ TSet(c, [tscreen[c] EXCEPT !.prompt = TRUE])
    /\ UNCHANGED <<backendVars, hscreen, dscreen, myTasks, people, auth, layout>>

\* { text: 'Cancel', style: 'cancel' }: the dialog closes
DeleteCancel(c) ==
    /\ tscreen[c].prompt
    /\ TSet(c, [tscreen[c] EXCEPT !.prompt = FALSE])
    /\ UNCHANGED <<backendVars, hscreen, dscreen, myTasks, people, auth, layout>>

\* { text: 'Delete' } onPress: the delete is issued for the task of the
\* render that opened the dialog
DeleteConfirm(c) ==
    /\ tscreen[c].prompt
    /\ tscreen[c].deleting = {}
    /\ TSet(c, [tscreen[c] EXCEPT !.prompt = FALSE,
                   !.deleting = {t.id : t \in tscreen[c].task}])
    /\ UNCHANGED <<backendVars, hscreen, dscreen, myTasks, people, auth, layout>>

\* .delete().eq('id', task.id) returns; on success router.back()
DeleteRespond(c, ok) ==
    /\ tscreen[c].deleting # {}
    /\ IF ok
       THEN /\ tasks' = {t \in tasks : t.id \notin tscreen[c].deleting}
            /\ TSet(c, [tscreen[c] EXCEPT !.deleting = {}, !.gone = TRUE])
       ELSE /\ TSet(c, [tscreen[c] EXCEPT !.deleting = {}, !.alert = "Error"])
            /\ UNCHANGED tasks
    /\ UNCHANGED <<users, households, household_members, household_invitations, nextId,
                   hscreen, dscreen, myTasks, people, auth, layout>>

\* the screen is popped and every response of it has arrived: the next
\* router.push mounts a new one
TaskBack(c) ==
    /\ tscreen[c].id # NoId
    /\ tscreen[c].pc = "idle"
    /\ tscreen[c].inflight = <<>>
    /\ tscreen[c].saves = {}
    /\ tscreen[c].deleting = {}
    /\ ~tscreen[c].prompt
    /\ TSet(c, TInit[c])
    /\ UNCHANGED <<backendVars, hscreen, dscreen, myTasks, people, auth, layout>>

-----------------------------------------------------------------------------
(* My Tasks screen: fetchTasks and the filter effect *)

Filters == {"all", "my-created", "assigned-to-me", "pending", "completed", "high-priority"}

\* (mutant) a comparison that keeps the case
KeepCase(ch) == ch

\* String.prototype.toLowerCase on one character of the alphabet in use
LowerChar(ch) ==
    CASE ch = "A" -> "a"
      [] ch = "B" -> "b"
      [] ch = "F" -> "f"
      [] OTHER -> ch

ToLowerCase(s) == [i \in 1..Len(s) |-> LowerChar(s[i])]

\* String.prototype.includes
Includes(s, q) == \E i \in 0..(Len(s) - Len(q)) : SubSeq(s, i + 1, i + Len(q)) = q

\* households(name) of the joined row, or the fallback text
UnknownHousehold == <<"U">>

HouseholdName(h) ==
    IF h \in HouseholdIds
    THEN (CHOOSE x \in households : x.id = h).name
    ELSE UnknownHousehold

\* a row of the tasks select after transformedTasks' map
TransformedTask(t) ==
    [id |-> t.id, household_id |-> t.household_id, title |-> t.title,
     details |-> t.details, status |-> t.status, assignee |-> t.assignee,
     created_by |-> IF t.created_by = Null THEN "" ELSE t.created_by,
     due_date |-> t.due_date,
     priority |-> IF t.priority = Null THEN "medium" ELSE t.priority,
     household_name |-> HouseholdName(t.household_id)]

\* .in('household_id', householdIds).order('created_at', { ascending: false })
TransformedTasksOf(hs) ==
    LET ids == NewestFirst({t.id : t \in {x \in tasks : x.household_id \in hs}})
    IN [i \in 1..Len(ids) |-> TransformedTask(CHOOSE t \in tasks : t.id = ids[i])]

\* the search filter's callback
SearchKeeps(t, q) ==
    \/ Includes(ToLowerCase(t.title), ToLowerCase(q))
    \/ Includes(ToLowerCase(t.details), ToLowerCase(q))
    \/ Includes(ToLowerCase(t.household_name), ToLowerCase(q))

\* (mutant) the switch without its high-priority case
CategoryKeepsNoPriority(f, t, userId) ==
    CASE f = "my-created" -> t.created_by = userId
      [] f = "assigned-to-me" -> t.assignee = userId
      [] f = "pending" -> ~t.status
      [] f = "completed" -> t.status
      [] OTHER -> TRUE

\* the switch on selectedFilter
CategoryKeeps(f, t, userId) ==
    CASE f = "my-created" -> t.created_by = userId
      [] f = "assigned-to-me" -> t.assignee = userId
      [] f = "pending" -> ~t.status
      [] f = "completed" -> t.status
      [] f = "high-priority" -> t.priority = "high"
      [] OTHER -> TRUE

\* the search filter's callback throws a TypeError: the title does not match,
\* so task.details.toLowerCase() is evaluated, and details is null
SearchThrows(t, q) ==
    /\ ~Includes(ToLowerCase(t.title), ToLowerCase(q))
    /\ t.details = NullText

\* the filter effect throws: the search filter is applied and its callback
\* throws for one of the tasks
FilterThrows(list, q) ==
    /\ Trim(q) # <<>>
    /\ \E i \in 1..Len(list) : SearchThrows(list[i], q)

\* the body of the filter effect
Filtered(list, q, f, userId) ==
    LET BySearch(t) == SearchKeeps(t, q)
        ByCategory(t) == CategoryKeeps(f, t, userId)
        searched == IF Trim(q) # <<>> THEN SelectSeq(list, BySearch) ELSE list
    IN SelectSeq(searched, ByCategory)

\* dirty: a dependency of the filter effect changed and the effect has not
\* run yet; pc "crashed": an effect has thrown and, there being no error
\* boundary, React has unmounted the screen
MInit ==
    [userId |-> Null, pc |-> "idle", tasks |-> <<>>, filteredTasks |-> <<>>,
     loading |-> TRUE, refreshing |-> FALSE, searchQuery |-> <<>>,
     selectedFilter |-> "all", dirty |-> FALSE, alert |-> Null]

MSet(c, r) == myTasks' = [myTasks EXCEPT ![c] = r]

\* getCurrentUser; the [userId] effect then calls fetchTasks
MyTasksGetCurrentUser(c) ==
    /\ myTasks[c].userId = Null
    /\ MSet(c, [myTasks[c] EXCEPT !.userId = SessionUser(c), !.pc = "m_members",
                   !.dirty = TRUE])
    /\ UNCHANGED <<backendVars, hscreen, dscreen, tscreen, people, auth, layout>>

\* onRefresh: setRefreshing(true); fetchTasks() returns at once without a user
MyTasksRefresh(c) ==
    /\ myTasks[c].pc = "idle"
    /\ ~myTasks[c].refreshing
    /\ MSet(c, [myTasks[c] EXCEPT !.refreshing = TRUE,
                   !.pc = IF myTasks[c].userId = Null THEN "idle" ELSE "m_members"])
    /\ UNCHANGED <<backendVars, hscreen, dscreen, tscreen, people, auth, layout>>

\* rows of household_members whose column col holds v
MembersWhere(col, v) ==
    {m \in household_members : col \in DOMAIN m /\ m[col] = v}

\* fetchTasks from its first await on: the membership select filtered by
\* .eq('id', userId).eq('is_active', true) (its error is not read, data is
\* null on an error), then the tasks select
MyTasksFetchReturn(c, ok, okTasks) ==
    /\ myTasks[c].pc = "m_members"
    /\ LET r == myTasks[c]
           done == [r EXCEPT !.pc = "idle", !.loading = FALSE, !.refreshing = FALSE] IN
       IF ~(ok /\ MemberQueryOk({"household_id", "id", "is_active"}))
       THEN MSet(c, done)
       ELSE LET hs == {m.household_id :
                          m \in {x \in MembersWhere("id", r.userId) : x.is_active = TRUE}}
                list == TransformedTasksOf(hs) IN
            IF ~okTasks
            THEN MSet(c, [done EXCEPT !.alert = "Error"])
            ELSE MSet(c, [done EXCEPT !.tasks = list, !.filteredTasks = list,
                             !.dirty = TRUE])
    /\ UNCHANGED <<backendVars, hscreen, dscreen, tscreen, people, auth, layout>>

\* onChangeText={setSearchQuery}
ChangeSearch(c, q) ==
    /\ myTasks[c].pc # "crashed"
    /\ q # myTasks[c].searchQuery
    /\ MSet(c, [myTasks[c] EXCEPT !.searchQuery = q, !.dirty = TRUE])
    /\ UNCHANGED <<backendVars, hscreen, dscreen, tscreen, people, auth, layout>>

\* setSelectedFilter(option.value)
SelectFilter(c, f) ==
    /\ myTasks[c].pc # "crashed"
    /\ f # myTasks[c].selectedFilter
    /\ MSet(c, [myTasks[c] EXCEPT !.selectedFilter = f, !.dirty = TRUE])
    /\ UNCHANGED <<backendVars, hscreen, dscreen, tscreen, people, auth, layout>>

\* the effect on [tasks, searchQuery, selectedFilter, userId]
FilterEffect(c) ==
    /\ myTasks[c].dirty
    /\ LET r == myTasks[c] IN
       IF FilterThrows(r.tasks, r.searchQuery)
       THEN MSet(c, [r EXCEPT !.dirty = FALSE, !.pc = "crashed"])
       ELSE MSet(c, [r EXCEPT !.dirty = FALSE,
                        !.filteredTasks = Filtered(r.tasks, r.searchQuery, r.selectedFilter, r.userId)])
    /\ UNCHANGED <<backendVars, hscreen, dscreen, tscreen, people, auth, layout>>

-----------------------------------------------------------------------------
(* People screen: fetchPeople *)

PInit ==
    [userId |-> Null, pc |-> "idle", people |-> {}, loading |-> TRUE,
     refreshing |-> FALSE, alert |-> Null]

PSet(c, r) == people' = [people EXCEPT ![c] = r]

\* getCurrentUser; the [userId] effect then calls fetchPeople
PeopleGetCurrentUser(c) ==
    /\ people[c].userId = Null
    /\ PSet(c, [people[c] EXCEPT !.userId = SessionUser(c), !.pc = "p_households"])
    /\ UNCHANGED <<backendVars, hscreen, dscreen, tscreen, myTasks, auth, layout>>

\* onRefresh: setRefreshing(true); fetchPeople() returns at once without a user
PeopleRefresh(c) ==
    /\ people[c].pc = "idle"
    /\ ~people[c].refreshing
    /\ PSet(c, [people[c] EXCEPT !.refreshing = TRUE,
                   !.pc = IF people[c].userId = Null THEN "idle" ELSE "p_households"])
    /\ UNCHANGED <<backendVars, hscreen, dscreen, tscreen, myTasks, auth, layout>>

\* member.id of a returned row (undefined when the row has no such column)
PersonId(m) == IF "id" \in DOMAIN m THEN m["id"] ELSE Null

\* peopleMap: one entry per member.id other than the current user, with one
\* shared household pushed per row
PeopleMap(rows, userId) ==
    {[id |-> k, household_count |-> Cardinality({m \in rows : PersonId(m) = k})] :
        k \in {PersonId(m) : m \in rows} \ {userId}}

\* fetchPeople from its first await on: the membership select filtered by
\* .eq('id', userId).eq('is_active', true) (its error is not read), then the
\* select of id, household_id, profiles(...) for those households
PeopleFetchReturn(c, ok, okMembers) ==
    /\ people[c].pc = "p_households"
    /\ LET r == people[c]
           done == [r EXCEPT !.pc = "idle", !.loading = FALSE, !.refreshing = FALSE] IN
       IF ~(ok /\ MemberQueryOk({"household_id", "id", "is_active"}))
       THEN PSet(c, done)
       ELSE LET hs == {m.household_id :
                          m \in {x \in MembersWhere("id", r.userId) : x.is_active = TRUE}}
                rows == {m \in household_members :
                            m.household_id \in hs /\ m.is_active = TRUE} IN
            IF ~(okMembers /\ MemberQueryOk({"id", "household_id", "is_active"}))
            THEN PSet(c, [done EXCEPT !.alert = "Error"])
            ELSE PSet(c, [done EXCEPT !.people = PeopleMap(rows, r.userId)])
    /\ UNCHANGED <<backendVars, hscreen, dscreen, tscreen, myTasks, auth, layout>>

-----------------------------------------------------------------------------
(* Households screen: fetchHouseholds, the poll timer, mount and unmount *)

MaxFetches == 2         \* fetchHouseholds calls in flight for one client

\* household ids in ascending order
RECURSIVE AscendingIds(_)
AscendingIds(ids) ==
    IF ids = {} THEN <<>>
    ELSE LET m == CHOOSE x \in ids : \A y \in ids : x <= y
         IN <<m>> \o AscendingIds(ids \ {m})

\* a fetchHouseholds call between two awaits: uid is the userId of its
\* closure, ids the household ids its membership select returned, overtaken:
\* a call issued later has already delivered its list, dead: the component
\* it belongs to is unmounted
NewFetch(uid) ==
    [uid |-> uid, phase |-> "members", ids |-> {}, overtaken |-> FALSE, dead |-> FALSE]

\* the [userId] effect once userId is set: the first fetchHouseholds() and
\* setInterval
HouseholdsEffect(c) ==
    /\ hscreen[c].mounted
    /\ hscreen[c].userId # Null
    /\ hscreen[c].timers = 0
    /\ Len(hscreen[c].inflight) < MaxFetches
    /\ HSet(c, [hscreen[c] EXCEPT !.timers = 1,
                                  !.inflight = Append(@, NewFetch(hscreen[c].userId))])
    /\ UNCHANGED <<backendVars, dscreen, tscreen, myTasks, people, auth, layout>>
\* (mutant) an interval whose callback fetches nothing
PollTickIdle(c) ==
    /\ hscreen[c].timers > 0
    /\ UNCHANGED vars

\* the interval fires: fetchHouseholds()
PollTick(c) ==
    /\ hscreen[c].timers > 0
    /\ Len(hscreen[c].inflight) < MaxFetches
    /\ HSet(c, [hscreen[c] EXCEPT !.inflight = Append(@, NewFetch(hscreen[c].userId))])
    /\ UNCHANGED <<backendVars, dscreen, tscreen, myTasks, people, auth, layout>>
\* (mutant) a response that a later call has overtaken is dropped
DeliveredInOrder(r, i, list) ==
    LET f == r.inflight[i]
        rest == [j \in 1..Len(r.inflight) |->
                    IF j < i THEN [r.inflight[j] EXCEPT !.overtaken = TRUE]
                    ELSE r.inflight[j]] IN
    IF f.dead \/ f.overtaken
    THEN [r EXCEPT !.inflight = RemoveAt(@, i)]
    ELSE [r EXCEPT !.inflight = RemoveAt(rest, i), !.list = list, !.stale = f.overtaken]

\* call i delivers list: the calls issued before it and still in flight are
\* overtaken; setHouseholds has no effect on an unmounted component
Delivered(r, i, list) ==
    LET f == r.inflight[i]
        rest == [j \in 1..Len(r.inflight) |->
                    IF j < i THEN [r.inflight[j] EXCEPT !.overtaken = TRUE]
                    ELSE r.inflight[j]] IN
    IF f.dead
    THEN [r EXCEPT !.inflight = RemoveAt(@, i)]
    ELSE [r EXCEPT !.inflight = RemoveAt(rest, i), !.list = list, !.stale = f.overtaken]

\* call i ends with an alert
FetchFailed(r, i) ==
    IF r.inflight[i].dead
    THEN [r EXCEPT !.inflight = RemoveAt(@, i)]
    ELSE [r EXCEPT !.inflight = RemoveAt(@, i), !.alert = "Error fetching households"]

\* the household_members select by user_id returns
FetchMemberships(c, i, ok) ==
    /\ i \in 1..Len(hscreen[c].inflight)
    /\ hscreen[c].inflight[i].phase = "members"
    /\ LET r == hscreen[c]
           rows == MembersWhere("user_id", r.inflight[i].uid) IN
       IF ~(ok /\ MemberQueryOk({"household_id", "user_id"}))
       THEN HSet(c, FetchFailed(r, i))
       ELSE IF rows = {}
       THEN HSet(c, Delivered(r, i, <<>>))
       ELSE HSet(c, [r EXCEPT !.inflight[i].phase = "households",
                              !.inflight[i].ids = {m.household_id : m \in rows}])
    /\ UNCHANGED <<backendVars, dscreen, tscreen, myTasks, people, auth, layout>>

\* the households select .in('id', householdIds) returns; the count queries
\* (a failed count reads as 0) and setHouseholds follow
FetchHouseholdRows(c, i, ok) ==
    /\ i \in 1..Len(hscreen[c].inflight)
    /\ hscreen[c].inflight[i].phase = "households"
    /\ LET r == hscreen[c] IN
       IF ~ok
       THEN HSet(c, FetchFailed(r, i))
       ELSE HSet(c, Delivered(r, i, AscendingIds(r.inflight[i].ids \cap HouseholdIds)))
    /\ UNCHANGED <<backendVars, dscreen, tscreen, myTasks, people, auth, layout>>

\* (mutant) an unmount that leaves the interval running
HUnmountNoCleanup(c) ==
    /\ hscreen[c].mounted
    /\ hscreen[c].pc = "idle"
    /\ HSet(c, [HInit EXCEPT !.mounted = FALSE, !.timers = hscreen[c].timers,
                   !.inflight = [j \in 1..Len(hscreen[c].inflight) |->
                                    [hscreen[c].inflight[j] EXCEPT !.dead = TRUE]]])
    /\ UNCHANGED <<backendVars, dscreen, tscreen, myTasks, people, auth, layout>>

\* the screen unmounts: the effect's cleanup clears the interval, the state
\* is gone, the calls in flight run on
HUnmount(c) ==
    /\ hscreen[c].mounted
    /\ hscreen[c].pc = "idle"
    /\ HSet(c, [HInit EXCEPT !.mounted = FALSE, !.timers = 0,
                   !.inflight = [j \in 1..Len(hscreen[c].inflight) |->
                                    [hscreen[c].inflight[j] EXCEPT !.dead = TRUE]]])
    /\ UNCHANGED <<backendVars, dscreen, tscreen, myTasks, people, auth, layout>>

\* the screen is mounted again with fresh state
HMount(c) ==
    /\ ~hscreen[c].mounted
    /\ HSet(c, [hscreen[c] EXCEPT !.mounted = TRUE])
    /\ UNCHANGED <<backendVars, dscreen, tscreen, myTasks, people, auth, layout>>

-----------------------------------------------------------------------------
(* Households screen: onRefresh *)

\* The last await of the stats createHousehold in two steps, for what may
\* happen between them: the household_members insert is carried out by the
\* backend, and later its response reaches the screen. StatsCreateMember
\* above is the two steps with nothing in between.
StatsCreateMemberSent(c, ok) ==
    /\ hscreen[c].pc = "s_member"
    /\ LET row == MemberRow(hscreen[c].cur, hscreen[c].data, DefaultRole, DefaultActive) IN
       IF ok /\ MemberInsertAccepted({"household_id", "user_id", "name"}, row)
       THEN /\ household_members' = household_members \cup {row}
            /\ HSet(c, [hscreen[c] EXCEPT !.pc = "s_joined"])
       ELSE /\ HSet(c, HDone(hscreen[c], "Error joining household"))
            /\ UNCHANGED household_members
    /\ UNCHANGED <<users, households, household_invitations, tasks, nextId,
                   dscreen, tscreen, myTasks, people, auth, layout>>

\* the response arrives: setHouseholds((prev) => [...prev, { id: data.id, ... }])
StatsCreateMemberReturn(c) ==
    /\ hscreen[c].pc = "s_joined"
    /\ HSet(c, HDone([hscreen[c] EXCEPT !.name = <<>>,
                                        !.list = Append(@, hscreen[c].data)], "Success"))
    /\ UNCHANGED <<backendVars, dscreen, tscreen, myTasks, people, auth, layout>>

\* household_id of the returned rows, in row order
RECURSIVE InRowOrder(_)
InRowOrder(rows) ==
    IF rows = {} THEN <<>>
    ELSE LET m == CHOOSE x \in rows : \A y \in rows : x.rid <= y.rid
         IN <<m.household_id>> \o InRowOrder(rows \ {m})

\* pull to refresh, or the screen comes into focus: setRefreshing(true) and
\* the membership select is issued
HRefreshPress(c) ==
    /\ UserReady(c)
    /\ hscreen[c].userId # Null
    /\ HSet(c, [hscreen[c] EXCEPT !.pc = "r_members", !.rerr = {}])
    /\ UNCHANGED <<backendVars, dscreen, tscreen, myTasks, people, auth, layout>>

\* (mutant) a refresh that reports its error
HRefreshReturnAlerting(c, ok, okCounts) ==
    /\ hscreen[c].pc = "r_members"
    /\ IF ok /\ MemberQueryOk({"household_id", "user_id"})
       THEN HSet(c, [hscreen[c] EXCEPT
                        !.pc = "idle",
                        !.list = InRowOrder(MembersWhere("user_id", hscreen[c].userId)),
                        !.rerr = IF okCounts THEN {} ELSE {"r_counts"}])
       ELSE HSet(c, [hscreen[c] EXCEPT !.pc = "idle", !.rerr = {"r_members"},
                                       !.alert = "Error"])
    /\ UNCHANGED <<backendVars, dscreen, tscreen, myTasks, people, auth, layout>>

\* the membership select returns: `if (!error && data)` runs the count
\* queries (a failed count reads as 0) and setHouseholds; otherwise nothing
\* but setRefreshing(false)
HRefreshReturn(c, ok, okCounts) ==
    /\ hscreen[c].pc = "r_members"
    /\ IF ok /\ MemberQueryOk({"household_id", "user_id"})
       THEN HSet(c, [hscreen[c] EXCEPT
                        !.pc = "idle",
                        !.list = InRowOrder(MembersWhere("user_id", hscreen[c].userId)),
                        !.rerr = IF okCounts THEN {} ELSE {"r_counts"}])
       ELSE HSet(c, [hscreen[c] EXCEPT !.pc = "idle", !.rerr = {"r_members"}])
    /\ UNCHANGED <<backendVars, dscreen, tscreen, myTasks, people, auth, layout>>

-----------------------------------------------------------------------------
(* Auth screen: handleAuth *)

\* err: the calls of the running handleAuth that returned an error;
\* erralert: an error alert was shown; after: a call was issued after an error
AInit ==
    [pc |-> "idle", isSigningUp |-> FALSE, loading |-> FALSE, alert |-> Null,
     route |-> "auth", err |-> {}, erralert |-> FALSE, after |-> FALSE]

ASet(c, r) == auth' = [auth EXCEPT ![c] = r]

\* the "Sign Up" / "Login" mode switch
AuthToggle(c) ==
    /\ auth[c].pc = "idle"
    /\ auth[c].route = "auth"
    /\ ASet(c, [auth[c] EXCEPT !.isSigningUp = ~@])
    /\ UNCHANGED <<backendVars, hscreen, dscreen, tscreen, myTasks, people, layout>>

\* handleAuth: setLoading(true), signUp or signInWithPassword is issued
AuthPress(c) ==
    /\ auth[c].pc = "idle"
    /\ auth[c].route = "auth"
    /\ ASet(c, [auth[c] EXCEPT !.pc = "a_auth", !.loading = TRUE, !.alert = Null,
                               !.err = {}, !.erralert = FALSE, !.after = FALSE])
    /\ UNCHANGED <<backendVars, hscreen, dscreen, tscreen, myTasks, people, layout>>
\* (mutant) the failure branch runs before setLoading(false)
AuthReturnStillLoading(c, ok) ==
    /\ auth[c].pc = "a_auth"
    /\ LET r == auth[c] IN
       IF ~ok
       THEN ASet(c, [r EXCEPT !.pc = "idle", !.err = {"a_auth"}, !.erralert = TRUE,
                              !.alert = IF r.isSigningUp THEN "Sign Up error"
                                        ELSE "Login error"])
       ELSE ASet(c, [r EXCEPT !.loading = FALSE,
                              !.pc = IF r.isSigningUp THEN "a_profile" ELSE "a_lookup"])
    /\ UNCHANGED <<backendVars, hscreen, dscreen, tscreen, myTasks, people, layout>>

\* the auth call returns
AuthReturn(c, ok) ==
    /\ auth[c].pc = "a_auth"
    /\ LET r == [auth[c] EXCEPT !.loading = FALSE] IN
       IF ~ok
       THEN ASet(c, [r EXCEPT !.pc = "idle", !.err = {"a_auth"}, !.erralert = TRUE,
                              !.alert = IF r.isSigningUp THEN "Sign Up error"
                                        ELSE "Login error"])
       ELSE ASet(c, [r EXCEPT !.pc = IF r.isSigningUp THEN "a_profile" ELSE "a_lookup"])
    /\ UNCHANGED <<backendVars, hscreen, dscreen, tscreen, myTasks, people, layout>>

\* insert into users (primary key id): the result is not read
UsersInsert(c, ok) ==
    IF ok /\ SessionUser(c) \notin users
    THEN users' = users \cup {SessionUser(c)}
    ELSE UNCHANGED users

UsersInsertFailed(c, ok) == ~(ok /\ SessionUser(c) \notin users)

\* sign-up: the profile insert, then 'Sign up successful!'
AuthProfileInsert(c, ok) ==
    /\ auth[c].pc = "a_profile"
    /\ UsersInsert(c, ok)
    /\ ASet(c, [auth[c] EXCEPT !.pc = "idle", !.isSigningUp = FALSE,
                               !.alert = "Sign up successful!",
                               !.err = IF UsersInsertFailed(c, ok) THEN {"a_profile"} ELSE {}])
    /\ UNCHANGED <<households, household_members, household_invitations, tasks, nextId,
                   hscreen, dscreen, tscreen, myTasks, people, layout>>

\* login: users select by id, .single(); only data is read
AuthLookup(c, ok) ==
    /\ auth[c].pc = "a_lookup"
    /\ LET r == [auth[c] EXCEPT !.err = IF ok THEN {} ELSE {"a_lookup"}] IN
       IF ok /\ SessionUser(c) \in users
       THEN ASet(c, [r EXCEPT !.pc = "idle", !.alert = "Logged in!",
                              !.route = "households"])
       ELSE ASet(c, [r EXCEPT !.pc = "a_insert"])
    /\ UNCHANGED <<backendVars, hscreen, dscreen, tscreen, myTasks, people, layout>>

\* login: the insert for a missing profile row, then 'Logged in!'
AuthEnsureInsert(c, ok) ==
    /\ auth[c].pc = "a_insert"
    /\ UsersInsert(c, ok)
    /\ ASet(c, [auth[c] EXCEPT !.pc = "idle", !.alert = "Logged in!",
                               !.route = "households",
                               !.after = (auth[c].err # {}),
                               !.err = IF UsersInsertFailed(c, ok)
                                       THEN @ \cup {"a_insert"} ELSE @])
    /\ UNCHANGED <<households, household_members, household_invitations, tasks, nextId,
                   hscreen, dscreen, tscreen, myTasks, people, layout>>

\* ProfileScreen handleLogout, confirmed: signOut, then router.replace('/auth')
\* or, on an error, an alert
HandleLogout(c, ok) ==
    /\ auth[c].pc = "idle"
    /\ auth[c].route = "households"
    /\ IF ok
       THEN ASet(c, [auth[c] EXCEPT !.route = "auth", !.alert = Null, !.err = {},
                                   !.erralert = FALSE, !.after = FALSE])
       ELSE ASet(c, [auth[c] EXCEPT !.alert = "Error", !.err = {"a_signout"},
                                   !.erralert = TRUE, !.after = FALSE])
    /\ UNCHANGED <<backendVars, hscreen, dscreen, tscreen, myTasks, people, layout>>

-----------------------------------------------------------------------------
(* Root layout: the auth-state subscription and the route guard *)

MaxEvents == 2          \* auth-state events not yet delivered to the callback

\* segments[0]: the two groups, the two detail routes and /auth
Segments == {"(auth)", "(tabs)", "households", "tasks", "auth"}

\* session: whether the client holds a session; events: the sessions carried
\* by the auth-state events still to be delivered; isAuthenticated: "unknown"
\* is the useState's null; pending: the [isAuthenticated, segments] effect is
\* due; redirected: the last run of the effect called router.replace;
\* redirectedFor: the isAuthenticated under which the effect last called
\* router.replace, with no other navigation since ("none" otherwise)
LInit ==
    [session |-> FALSE, events |-> <<FALSE>>, isAuthenticated |-> "unknown",
     segment |-> "(auth)", pending |-> TRUE, redirected |-> FALSE,
     redirectedFor |-> "none"]

LSet(c, r) == layout' = [layout EXCEPT ![c] = r]

\* signInWithPassword succeeds: SIGNED_IN is emitted
SignedIn(c) ==
    /\ ~layout[c].session
    /\ Len(layout[c].events) < MaxEvents
    /\ LSet(c, [layout[c] EXCEPT !.session = TRUE, !.events = Append(@, TRUE)])
    /\ UNCHANGED <<backendVars, screenVars>>

\* signOut succeeds: SIGNED_OUT is emitted
SignedOut(c) ==
    /\ layout[c].session
    /\ Len(layout[c].events) < MaxEvents
    /\ LSet(c, [layout[c] EXCEPT !.session = FALSE, !.events = Append(@, FALSE)])
    /\ UNCHANGED <<backendVars, screenVars>>

\* the onAuthStateChange callback: setIsAuthenticated(!!session)
AuthStateChange(c) ==
    /\ layout[c].events # <<>>
    /\ LET r == layout[c]
           v == IF Head(r.events) THEN "in" ELSE "out" IN
       LSet(c, [r EXCEPT !.events = Tail(@), !.isAuthenticated = v,
                         !.pending = r.pending \/ v # r.isAuthenticated])
    /\ UNCHANGED <<backendVars, screenVars>>

\* a screen's router.push / router.replace, or a link opened from outside
Navigate(c, seg) ==
    /\ seg # layout[c].segment
    /\ LSet(c, [layout[c] EXCEPT !.segment = seg, !.pending = TRUE, !.redirected = FALSE,
                                 !.redirectedFor = "none"])
    /\ UNCHANGED <<backendVars, screenVars>>

\* (mutant) the guard without its unauthenticated branch
GuardEffectOneWay(c) ==
    /\ layout[c].pending
    /\ LET r == layout[c] IN
       IF r.isAuthenticated = "in" /\ r.segment = "(auth)"
       THEN LSet(c, [r EXCEPT !.segment = "(tabs)", !.redirected = TRUE,
                              !.redirectedFor = r.isAuthenticated])
       ELSE LSet(c, [r EXCEPT !.pending = FALSE, !.redirected = FALSE])
    /\ UNCHANGED <<backendVars, screenVars>>

\* (mutant) the guard sending every authenticated user outside the tabs group
\* to the tabs
GuardEffectTabsOnly(c) ==
    /\ layout[c].pending
    /\ LET r == layout[c]
           inAuthGroup == r.segment = "(auth)"
           inTabsGroup == r.segment = "(tabs)" IN
       IF r.isAuthenticated = "unknown"
       THEN LSet(c, [r EXCEPT !.pending = FALSE, !.redirected = FALSE])
       ELSE IF r.isAuthenticated = "in" /\ ~inTabsGroup
       THEN LSet(c, [r EXCEPT !.segment = "(tabs)", !.redirected = TRUE,
                              !.redirectedFor = r.isAuthenticated])
       ELSE IF r.isAuthenticated = "out" /\ ~inAuthGroup
       THEN LSet(c, [r EXCEPT !.segment = "(auth)", !.redirected = TRUE,
                              !.redirectedFor = r.isAuthenticated])
       ELSE LSet(c, [r EXCEPT !.pending = FALSE, !.redirected = FALSE])
    /\ UNCHANGED <<backendVars, screenVars>>

\* the effect on [isAuthenticated, segments]; a redirect changes segments, so
\* the effect is due again
GuardEffect(c) ==
    /\ layout[c].pending
    /\ LET r == layout[c]
           inAuthGroup == r.segment = "(auth)" IN
       IF r.isAuthenticated = "unknown"
       THEN LSet(c, [r EXCEPT !.pending = FALSE, !.redirected = FALSE])
       ELSE IF r.isAuthenticated = "in" /\ inAuthGroup
       THEN LSet(c, [r EXCEPT !.segment = "(tabs)", !.redirected = TRUE,
                              !.redirectedFor = r.isAuthenticated])
       ELSE IF r.isAuthenticated = "out" /\ ~inAuthGroup
       THEN LSet(c, [r EXCEPT !.segment = "(auth)", !.redirected = TRUE,
                              !.redirectedFor = r.isAuthenticated])
       ELSE LSet(c, [r EXCEPT !.pending = FALSE, !.redirected = FALSE])
    /\ UNCHANGED <<backendVars, screenVars>>

-----------------------------------------------------------------------------
(* Specifications *)


\* Nothing created yet; the profile row of u2 may be missing (the sign-up
\* insert's error is ignored).
InitEmptyBackend ==
    /\ users \in {Users, Users \ {"u2"}}
    /\ households = {}
    /\ household_members = {}
    /\ household_invitations = {}
    /\ tasks = {}
    /\ nextId = 1

InitScreens ==
    /\ hscreen = [c \in Clients |-> HInit]
    /\ dscreen = [c \in Clients |-> DInit]
    /\ tscreen = TInit
    /\ myTasks = [c \in Clients |-> MInit]
    /\ people = [c \in Clients |-> PInit]
    /\ auth = [c \in Clients |-> AInit]
    /\ layout = [c \in Clients |-> LInit]

\* Membership: createHousehold (stats version) and the direct-insert
\* inviteMember, run by two clients against one backend.
InitMembers == InitEmptyBackend /\ InitScreens

NextMembers ==
    \E c \in Clients :
        \/ GetSession(c)
        \/ StatsCreatePress(c, <<" ", "F">>)
        \/ StatsCreateSession(c, TRUE)
        \/ StatsCreateLookup(c, TRUE)
        \/ StatsCreateUser(c, TRUE, TRUE)
        \/ StatsCreateHousehold(c, TRUE)
        \/ StatsCreateMember(c, TRUE)
        \/ \E h \in 1..MaxHouseholds : DetailOpen(c, h)
        \/ DetailGetCurrentUser(c)
        \/ DirectInvitePress(c, <<"u3">>, <<"M">>, "admin")
        \/ DirectInviteUser(c, TRUE)
        \/ \E ok \in BOOLEAN : DirectInviteCheck(c, ok)
        \/ \E ok \in BOOLEAN : DirectInviteInsert(c, ok)
        \/ FetchHousehold(c, TRUE)
        \/ FetchMembers(c, TRUE)
        \/ FetchUsers(c, TRUE)
        \/ FetchTasks(c, TRUE)

SpecMembers == InitMembers /\ [][NextMembers]_vars

\* C1: in every reachable backend state there is at most one
\* household_members row per (user, household) pair, whatever the interleaving
\* of createHousehold and the direct-insert inviteMember of the clients.
C1_UniqueMembership ==
    \A m1, m2 \in household_members :
        (m1.user_id = m2.user_id /\ m1.household_id = m2.household_id) => m1 = m2


\* Household creation: the three versions of createHousehold, with failing
\* backend calls, run by two clients.
InitCreate == InitEmptyBackend /\ InitScreens

NextCreate ==
    \E c \in Clients :
        \/ GetSession(c)
        \/ \E name \in Names : StatsCreatePress(c, name)
        \/ \E b \in BOOLEAN : StatsCreateSession(c, b)
        \/ \E ok \in BOOLEAN : StatsCreateLookup(c, ok)
        \/ \E b \in BOOLEAN, ok \in BOOLEAN : StatsCreateUser(c, b, ok)
        \/ \E ok \in BOOLEAN : StatsCreateHousehold(c, ok)
        \/ \E ok \in BOOLEAN : StatsCreateMember(c, ok)
        \/ \E name \in Names : V2CreatePress(c, name)
        \/ \E ok \in BOOLEAN : V2CreateHousehold(c, ok)
        \/ \E ok \in BOOLEAN : V2CreateMember(c, ok)
        \/ \E name \in Names : V3CreatePress(c, name)
        \/ \E ok \in BOOLEAN : V3CreateHousehold(c, ok)
        \/ \E ok \in BOOLEAN : V3CreateMember(c, ok)

SpecCreate == InitCreate /\ [][NextCreate]_vars


\* Invitations: createHousehold (stats version) and the invitation-flow
\* inviteMember of part_005, run by two clients.
InitInvite == InitEmptyBackend /\ InitScreens

NextInvite ==
    \E c \in Clients :
        \/ GetSession(c)
        \/ StatsCreatePress(c, <<"F">>)
        \/ StatsCreateSession(c, TRUE)
        \/ StatsCreateLookup(c, TRUE)
        \/ StatsCreateUser(c, TRUE, TRUE)
        \/ StatsCreateHousehold(c, TRUE)
        \/ StatsCreateMember(c, TRUE)
        \/ \E h \in 1..MaxHouseholds : DetailOpen(c, h)
        \/ FlowGetCurrentUser(c)
        \/ FlowFetchHousehold(c, TRUE)
        \/ FlowFetchMembers(c, TRUE)
        \/ FlowFetchTasks(c, TRUE)
        \/ \E e \in {<<"u3">>, <<" ", "u3">>} : FlowInvitePress(c, e)
        \/ FlowInviteUser(c, TRUE)
        \/ FlowInviteCheck(c, TRUE)
        \/ \E ok \in BOOLEAN : FlowInvitePending(c, ok)
        \/ FlowInviteInsert(c, TRUE)

SpecInvite == InitInvite /\ [][NextInvite]_vars

\* Task detail: two clients open the tasks of one household and toggle them.
\* The backend holds a household with two tasks that differ in every column.
SeedHousehold == [id |-> 1, name |-> <<"F">>, created_by |-> "u1"]

SeedTask1(status) ==
    TaskRow(1, 1, <<"a">>, <<"x">>, status, Null, "u1", "medium", Null)

SeedTask2(status) ==
    TaskRow(2, 1, <<"b">>, <<>>, status, "u2", "u2", "high", "d1")

InitTask ==
    /\ users = Users
    /\ households = {SeedHousehold}
    /\ household_members = {[rid |-> 1, user_id |-> "u1", household_id |-> 1,
                             role |-> DefaultRole, is_active |-> DefaultActive],
                            [rid |-> 2, user_id |-> "u2", household_id |-> 1,
                             role |-> "admin", is_active |-> TRUE]}
    /\ household_invitations = {}
    /\ \E s1, s2 \in BOOLEAN : tasks = {SeedTask1(s1), SeedTask2(s2)}
    /\ nextId = 2
    /\ InitScreens

NextTask ==
    \E c \in Clients :
        \/ \E t \in TaskIds : TaskOpen(c, t)
        \/ \E ok \in BOOLEAN : TaskFetchTask(c, ok)
        \/ \E ok \in BOOLEAN : TaskFetchHousehold(c, ok)
        \/ TogglePress(c)
        \/ \E i \in 1..MaxInFlight, ok \in BOOLEAN : ToggleRespond(c, i, ok)

SpecTask == InitTask /\ [][NextTask]_vars

\* My Tasks filtering: the screen of one client after a fetch has delivered
\* some of four tasks of three households; the user types queries and picks
\* filters, and the filter effect runs after each change.
FilterHouseholds ==
    {SeedHousehold,
     [id |-> 2, name |-> <<"B", "a">>, created_by |-> "u1"],
     [id |-> 3, name |-> <<"a", "B">>, created_by |-> "u2"]}

FilterTasks ==
    {TaskRow(1, 1, <<"a", "b">>, <<>>, FALSE, "u1", "u2", "high", Null),
     TaskRow(2, 1, <<"F">>, <<"A", "b">>, TRUE, Null, "u1", Null, "d1"),
     TaskRow(3, 2, <<"b", " ", "a">>, <<"x">>, FALSE, "u2", "u1", "low", Null),
     TaskRow(4, 3, <<"x">>, <<"x">>, TRUE, "u1", Null, "high", Null)}

Queries == {<<>>, <<" ">>, <<"a">>, <<"A", "B">>, <<" ", "a">>, <<"x">>}

InitFilter ==
    /\ users = Users
    /\ households = FilterHouseholds
    /\ household_members =
          {[rid |-> h, user_id |-> "u1", household_id |-> h,
            role |-> DefaultRole, is_active |-> DefaultActive] : h \in {1, 2, 3}}
    /\ household_invitations = {}
    /\ tasks \in SUBSET FilterTasks
    /\ nextId = 4
    /\ hscreen = [c \in Clients |-> HInit]
    /\ dscreen = [c \in Clients |-> DInit]
    /\ tscreen = TInit
    /\ myTasks = [c \in Clients |->
                     IF c = "c1"
                     THEN [MInit EXCEPT !.userId = SessionUser(c), !.loading = FALSE,
                                        !.tasks = TransformedTasksOf({1, 2, 3}),
                                        !.filteredTasks = TransformedTasksOf({1, 2, 3}),
                                        !.dirty = TRUE]
                     ELSE MInit]
    /\ people = [c \in Clients |-> PInit]
    /\ auth = [c \in Clients |-> AInit]
    /\ layout = [c \in Clients |-> LInit]

NextFilter ==
    \/ \E q \in Queries : ChangeSearch("c1", q)
    \/ \E f \in Filters : SelectFilter("c1", f)
    \/ FilterEffect("c1")

SpecFilter == InitFilter /\ [][NextFilter]_vars

\* The My Tasks and People tabs of two clients against a backend that holds
\* three households, their tasks and the membership rows of three users.
TabMember(n, u, h, active) ==
    [rid |-> n, user_id |-> u, household_id |-> h, role |-> DefaultRole,
     is_active |-> active]

InitTabs ==
    /\ users = Users
    /\ households = FilterHouseholds
    /\ \E a, b \in BOOLEAN :
          household_members =
              {TabMember(1, "u1", 1, TRUE), TabMember(2, "u1", 2, a),
               TabMember(3, "u2", 1, TRUE), TabMember(4, "u2", 2, b),
               TabMember(5, "u3", 2, TRUE), TabMember(6, "u3", 3, TRUE),
               TabMember(7, "u2", 3, FALSE)}
    /\ household_invitations = {}
    /\ tasks = FilterTasks
    /\ nextId = 4
    /\ InitScreens

NextTabs ==
    \E c \in Clients :
        \/ MyTasksGetCurrentUser(c)
        \/ MyTasksRefresh(c)
        \/ \E ok, okTasks \in BOOLEAN : MyTasksFetchReturn(c, ok, okTasks)
        \/ FilterEffect(c)
        \/ PeopleGetCurrentUser(c)
        \/ PeopleRefresh(c)
        \/ \E ok, okMembers \in BOOLEAN : PeopleFetchReturn(c, ok, okMembers)

SpecTabs == InitTabs /\ [][NextTabs]_vars

\* Failure paths: one client signs up and logs in while the profile row may
\* be missing, the other opens a household, fetches its data and refreshes
\* the households list; every backend call may return an error.
InitErrors ==
    /\ users = Users \ {"u2"}
    /\ households = {SeedHousehold}
    /\ household_members = {TabMember(1, "u1", 1, TRUE), TabMember(2, "u3", 1, TRUE)}
    /\ household_invitations = {}
    /\ \E s \in BOOLEAN : tasks = {SeedTask1(s), SeedTask2(FALSE)}
    /\ nextId = 2
    /\ InitScreens

NextErrors ==
    \/ GetSession("c1")
    \/ HRefreshPress("c1")
    \/ \E ok, okCounts \in BOOLEAN : HRefreshReturn("c1", ok, okCounts)
    \/ \E h \in HouseholdIds : DetailOpen("c1", h)
    \/ DetailGetCurrentUser("c1")
    \/ DetailRefresh("c1")
    \/ \E ok \in BOOLEAN : FetchHousehold("c1", ok)
    \/ \E ok \in BOOLEAN : FetchMembers("c1", ok)
    \/ \E ok \in BOOLEAN : FetchUsers("c1", ok)
    \/ \E ok \in BOOLEAN : FetchTasks("c1", ok)
    \/ AuthToggle("c2")
    \/ AuthPress("c2")
    \/ \E ok \in BOOLEAN : AuthReturn("c2", ok)
    \/ \E ok \in BOOLEAN : AuthProfileInsert("c2", ok)
    \/ \E ok \in BOOLEAN : AuthLookup("c2", ok)
    \/ \E ok \in BOOLEAN : AuthEnsureInsert("c2", ok)
    \/ \E ok \in BOOLEAN : HandleLogout("c2", ok)

SpecErrors == InitErrors /\ [][NextErrors]_vars

\* The route guard: a client signs in and out and navigates while the root
\* layout is mounted; the app starts with or without a stored session, the
\* INITIAL_SESSION event carries it. The callback and the effect are run by
\* React whenever they are due.
InitLayout ==
    /\ InitEmptyBackend
    /\ hscreen = [c \in Clients |-> HInit]
    /\ dscreen = [c \in Clients |-> DInit]
    /\ tscreen = TInit
    /\ myTasks = [c \in Clients |-> MInit]
    /\ people = [c \in Clients |-> PInit]
    /\ auth = [c \in Clients |-> AInit]
    /\ \E s \in BOOLEAN, seg \in {"(auth)", "(tabs)"} :
          layout = [c \in Clients |->
                       [LInit EXCEPT !.session = s, !.events = <<s>>, !.segment = seg]]

NextLayout ==
    \E c \in Clients :
        \/ SignedIn(c)
        \/ SignedOut(c)
        \/ AuthStateChange(c)
        \/ \E seg \in Segments : Navigate(c, seg)
        \/ GuardEffect(c)

SpecLayout ==
    /\ InitLayout
    /\ [][NextLayout]_vars
    /\ \A c \in Clients : WF_vars(AuthStateChange(c)) /\ WF_vars(GuardEffect(c))

\* The poll: the first client keeps its households screen open (or leaves it
\* and comes back) while the second, a member of the one household, adds the
\* first as a member by the direct-insert inviteMember. Every query
\* succeeds; the timer keeps firing and every response arrives.
InitPoll ==
    /\ users = Users
    /\ households = {SeedHousehold}
    /\ household_members = {TabMember(1, "u2", 1, TRUE)}
    /\ household_invitations = {}
    /\ tasks = {}
    /\ nextId = 2
    /\ InitScreens

InviterSteps(c, oks) ==
    \/ \E h \in HouseholdIds : DetailOpen(c, h)
    \/ DetailGetCurrentUser(c)
    \/ \E ok \in oks : FetchHousehold(c, ok)
    \/ \E ok \in oks : FetchMembers(c, ok)
    \/ \E ok \in oks : FetchUsers(c, ok)
    \/ \E ok \in oks : FetchTasks(c, ok)
    \/ DirectInvitePress(c, <<"u1">>, <<"M">>, "member")
    \/ \E ok \in oks : DirectInviteUser(c, ok)
    \/ \E ok \in oks : DirectInviteCheck(c, ok)
    \/ \E ok \in oks : DirectInviteInsert(c, ok)

NextPoll ==
    \/ GetSession("c1")
    \/ HouseholdsEffect("c1")
    \/ PollTick("c1")
    \/ \E i \in 1..MaxFetches : FetchMemberships("c1", i, TRUE)
    \/ \E i \in 1..MaxFetches : FetchHouseholdRows("c1", i, TRUE)
    \/ HUnmount("c1")
    \/ HMount("c1")
    \/ InviterSteps("c2", {TRUE})

SpecPoll ==
    /\ InitPoll
    /\ [][NextPoll]_vars
    /\ WF_vars(HouseholdsEffect("c1"))
    /\ WF_vars(PollTick("c1"))
    /\ \A i \in 1..MaxFetches :
          /\ WF_vars(FetchMemberships("c1", i, TRUE))
          /\ WF_vars(FetchHouseholdRows("c1", i, TRUE))

\* Racing list requests: as above, but the first client also refreshes by
\* hand or by focus, any of its queries may fail, and nothing is assumed
\* about when a response arrives.
NextRace ==
    \/ GetSession("c1")
    \/ HouseholdsEffect("c1")
    \/ PollTick("c1")
    \/ \E i \in 1..MaxFetches, ok \in BOOLEAN : FetchMemberships("c1", i, ok)
    \/ \E i \in 1..MaxFetches, ok \in BOOLEAN : FetchHouseholdRows("c1", i, ok)
    \/ HRefreshPress("c1")
    \/ \E ok, okCounts \in BOOLEAN : HRefreshReturn("c1", ok, okCounts)
    \/ HUnmount("c1")
    \/ HMount("c1")
    \/ InviterSteps("c2", {TRUE})

SpecRace == InitPoll /\ [][NextRace]_vars

SecondHousehold == [id |-> 2, name |-> <<"B">>, created_by |-> "u2"]

\* Invitations over time: the first client invites to its household from the
\* invitation-flow household screen, with failing calls; the second client
\* is the invited user, a member of another household, whose households
\* list polls and refreshes and whose People tab fetches.
InitInvited ==
    /\ users = Users
    /\ households = {SeedHousehold, SecondHousehold}
    /\ household_members = {TabMember(1, "u1", 1, TRUE), TabMember(2, "u2", 2, TRUE)}
    /\ household_invitations = {}
    /\ tasks = {}
    /\ nextId = 2
    /\ InitScreens

NextInvited ==
    \/ DetailOpen("c1", 1)
    \/ FlowGetCurrentUser("c1")
    \/ FlowFetchHousehold("c1", TRUE)
    \/ FlowFetchMembers("c1", TRUE)
    \/ FlowFetchTasks("c1", TRUE)
    \/ \E e \in {<<"u2">>, <<"u2", " ">>, <<"u3">>} : FlowInvitePress("c1", e)
    \/ \E ok \in BOOLEAN : FlowInviteUser("c1", ok)
    \/ \E ok \in BOOLEAN : FlowInviteCheck("c1", ok)
    \/ \E ok \in BOOLEAN : FlowInvitePending("c1", ok)
    \/ \E ok \in BOOLEAN : FlowInviteInsert("c1", ok)
    \/ GetSession("c2")
    \/ HouseholdsEffect("c2")
    \/ PollTick("c2")
    \/ \E i \in 1..MaxFetches : FetchMemberships("c2", i, TRUE)
    \/ \E i \in 1..MaxFetches : FetchHouseholdRows("c2", i, TRUE)
    \/ HRefreshPress("c2")
    \/ \E ok, okCounts \in BOOLEAN : HRefreshReturn("c2", ok, okCounts)
    \/ PeopleGetCurrentUser("c2")
    \/ PeopleRefresh("c2")
    \/ \E ok, okMembers \in BOOLEAN : PeopleFetchReturn("c2", ok, okMembers)

SpecInvited == InitInvited /\ [][NextInvited]_vars
\* The life of a task: the first client creates tasks on the household
\* screen it has open while the second toggles, edits and deletes tasks on
\* the task screen, with failing calls. Two households hold one task each.
InitLife ==
    /\ users = Users
    /\ households = {SeedHousehold, SecondHousehold}
    /\ household_members = {TabMember(1, "u1", 1, TRUE), TabMember(2, "u2", 1, TRUE),
                            TabMember(3, "u1", 2, TRUE), TabMember(4, "u2", 2, TRUE)}
    /\ household_invitations = {}
    /\ tasks = {SeedTask1(FALSE),
                TaskRow(2, 2, <<"b">>, <<>>, TRUE, "u2", "u2", "high", "d1")}
    /\ nextId = 3
    /\ InitScreens

NextLife ==
    \/ \E h \in HouseholdIds : DetailOpen("c1", h)
    \/ DetailGetCurrentUser("c1")
    \/ FetchHousehold("c1", TRUE)
    \/ FetchMembers("c1", TRUE)
    \/ FetchUsers("c1", TRUE)
    \/ FetchTasks("c1", TRUE)
    \/ \E title \in {<<"n">>, <<" ">>} : CreateTaskPress("c1", title, <<>>)
    \/ \E ok \in BOOLEAN : CreateTaskInsert("c1", ok)
    \/ \E t \in TaskIds : TaskOpen("c2", t)
    \/ TaskFetchTask("c2", TRUE)
    \/ TaskFetchHousehold("c2", TRUE)
    \/ tscreen["c2"].inflight = <<>> /\ TogglePress("c2")
    \/ ToggleRespond("c2", 1, TRUE)
    \/ EditToggle("c2")
    \/ SavePress("c2", <<"s">>, <<>>)
    \/ SaveRespond("c2", TRUE)
    \/ DeletePress("c2")
    \/ DeleteCancel("c2")
    \/ DeleteConfirm("c2")
    \/ DeleteRespond("c2", TRUE)
    \/ TaskBack("c2")

SpecLife == InitLife /\ [][NextLife]_vars
\* The two dialect scripts: any statement writes the table that the
\* PostgreSQL script accepts; the statements tried are inserts and status
\* updates with every status, an unknown one and NULL, for two e-mail
\* addresses, an existing and a missing household.
SqlStatuses == InvitationStatuses \cup {"expired", Null}

SqlEmails == {Email("u2"), Email("u3")}

\* the rows a statement may try to write in the current table
SqlWrites ==
    {InvitationRow(h, "u1", e, st) : h \in {1, 2}, e \in SqlEmails, st \in SqlStatuses}
    \cup {[r EXCEPT !.status = st] : r \in household_invitations, st \in SqlStatuses}

InitSql ==
    /\ users = Users
    /\ households = {SeedHousehold}
    /\ household_members = {}
    /\ household_invitations = {}
    /\ tasks = {}
    /\ nextId = 2
    /\ InitScreens

NextSql ==
    \/ \E h \in {1, 2}, e \in SqlEmails, st \in SqlStatuses : SqlInsert(h, "u1", e, st)
    \/ \E id \in 1..MaxRows, st \in SqlStatuses : SqlUpdate(id, st)

SpecSql == InitSql /\ [][NextSql]_vars
\* The direct-insert inviteMember with every kind of input: both clients
\* have the household open and invite by blank, padded, unknown and known
\* e-mail addresses, with blank and non-blank names and two roles, and any
\* call of the handler may fail.
InitDirect ==
    /\ users = Users
    /\ households = {SeedHousehold}
    /\ household_members = {TabMember(1, "u1", 1, TRUE)}
    /\ household_invitations = {}
    /\ tasks = {}
    /\ nextId = 2
    /\ InitScreens

NextDirect ==
    \E c \in Clients :
        \/ \E h \in HouseholdIds : DetailOpen(c, h)
        \/ DetailGetCurrentUser(c)
        \/ FetchHousehold(c, TRUE)
        \/ FetchMembers(c, TRUE)
        \/ FetchUsers(c, TRUE)
        \/ FetchTasks(c, TRUE)
        \/ \E e \in InviteEmails \cup {Email("u1")}, n \in MemberNames, role \in {"admin", "viewer"} :
              DirectInvitePress(c, e, n, role)
        \/ \E ok \in BOOLEAN : DirectInviteUser(c, ok)
        \/ \E ok \in BOOLEAN : DirectInviteCheck(c, ok)
        \/ \E ok \in BOOLEAN : DirectInviteInsert(c, ok)

SpecDirect == InitDirect /\ [][NextDirect]_vars
\* The invitation-flow inviteMember with every kind of input: both clients
\* have the household open and invite by blank, padded, unknown and known
\* e-mail addresses, that of a member included, and any call of the handler
\* may fail.
InitFlow ==
    /\ users = Users
    /\ households = {SeedHousehold}
    /\ household_members = {TabMember(1, "u1", 1, TRUE)}
    /\ household_invitations = {}
    /\ tasks = {}
    /\ nextId = 2
    /\ InitScreens

NextFlow ==
    \E c \in Clients :
        \/ \E h \in HouseholdIds : DetailOpen(c, h)
        \/ FlowGetCurrentUser(c)
        \/ FlowFetchHousehold(c, TRUE)
        \/ FlowFetchMembers(c, TRUE)
        \/ FlowFetchTasks(c, TRUE)
        \/ \E e \in InviteEmails \cup {Email("u1")} : FlowInvitePress(c, e)
        \/ \E ok \in BOOLEAN : FlowInviteUser(c, ok)
        \/ \E ok \in BOOLEAN : FlowInviteCheck(c, ok)
        \/ \E ok \in BOOLEAN : FlowInvitePending(c, ok)
        \/ \E ok \in BOOLEAN : FlowInviteInsert(c, ok)

SpecFlow == InitFlow /\ [][NextFlow]_vars
\* createTask with the assignee picker: the first client opens the
\* household, whose third member is inactive; it picks assignees, types
\* blank and non-blank titles and creates tasks, before and after its user
\* id is known, while its fetch of the members or its insert may fail. The
\* second client creates tasks in the same household.
InitAssign ==
    /\ users = Users
    /\ households = {SeedHousehold}
    /\ household_members = {TabMember(1, "u1", 1, TRUE), TabMember(2, "u2", 1, TRUE),
                            TabMember(3, "u3", 1, FALSE)}
    /\ household_invitations = {}
    /\ tasks = {}
    /\ nextId = 2
    /\ InitScreens

NextAssign ==
    \/ \E c \in Clients :
          \/ \E h \in HouseholdIds : DetailOpen(c, h)
          \/ DetailGetCurrentUser(c)
          \/ FetchHousehold(c, TRUE)
          \/ FetchUsers(c, TRUE)
          \/ FetchTasks(c, TRUE)
          \/ CreateTaskPress(c, <<"n">>, <<"x">>)
    \/ DetailRefresh("c1")
    \/ \E ok \in BOOLEAN : FetchMembers("c1", ok)
    \/ FetchMembers("c2", TRUE)
    \/ \E u \in Users \cup {Null} : SelectAssignee("c1", u)
    \/ CreateTaskPress("c1", <<" ">>, <<"x">>)
    \/ \E ok \in BOOLEAN : CreateTaskInsert("c1", ok)
    \/ CreateTaskInsert("c2", TRUE)

SpecAssign == InitAssign /\ [][NextAssign]_vars
\* Editing and deleting: the first client edits, saves and deletes tasks on
\* the task screen with failing calls, while the second client toggles and
\* deletes the same tasks, so that the first client's local row goes stale.
InitEdit ==
    /\ users = Users
    /\ households = {SeedHousehold}
    /\ household_members = {TabMember(1, "u1", 1, TRUE), TabMember(2, "u2", 1, TRUE)}
    /\ household_invitations = {}
    /\ tasks = {SeedTask1(FALSE), SeedTask2(TRUE)}
    /\ nextId = 2
    /\ InitScreens

NextEdit ==
    \/ \E c \in Clients :
          \/ TaskFetchTask(c, TRUE)
          \/ TaskFetchHousehold(c, TRUE)
          \/ DeletePress(c)
          \/ DeleteConfirm(c)
    \/ \E t \in TaskIds : TaskOpen("c1", t)
    \/ TaskOpen("c2", 1)
    \/ TaskBack("c1")
    \/ tscreen["c2"].inflight = <<>> /\ TogglePress("c2")
    \/ ToggleRespond("c2", 1, TRUE)
    \/ EditToggle("c1")
    \/ EditCancel("c1")
    \/ \E title \in {<<"s">>, <<" ">>} : SavePress("c1", title, <<"y">>)
    \/ \E ok \in BOOLEAN : SaveRespond("c1", ok)
    \/ DeleteCancel("c1")
    \/ \E ok \in BOOLEAN : DeleteRespond("c1", ok)
    \/ DeleteRespond("c2", TRUE)

SpecEdit == InitEdit /\ [][NextEdit]_vars
\* Creating while the list is fetched: one client creates a household on
\* the households screen while its poll and its refresh fetch the list;
\* nothing is assumed about when a response arrives.
InitDup ==
    /\ users = Users
    /\ households = {}
    /\ household_members = {}
    /\ household_invitations = {}
    /\ tasks = {}
    /\ nextId = 1
    /\ InitScreens

NextDup ==
    \/ GetSession("c1")
    \/ StatsCreatePress("c1", <<"F">>)
    \/ StatsCreateLookup("c1", TRUE)
    \/ StatsCreateHousehold("c1", TRUE)
    \/ \E ok \in BOOLEAN : StatsCreateMemberSent("c1", ok)
    \/ StatsCreateMemberReturn("c1")
    \/ HouseholdsEffect("c1")
    \/ PollTick("c1")
    \/ \E i \in 1..MaxFetches : FetchMemberships("c1", i, TRUE)
    \/ \E i \in 1..MaxFetches : FetchHouseholdRows("c1", i, TRUE)
    \/ HRefreshPress("c1")
    \/ HRefreshReturn("c1", TRUE, TRUE)

SpecDup == InitDup /\ [][NextDup]_vars
\* One client alone on the task screen: it opens tasks and presses the
\* status button, also before the response to an earlier press has arrived;
\* every update succeeds and nobody else writes.
NextToggle ==
    \/ \E t \in TaskIds : TaskOpen("c1", t)
    \/ TaskFetchTask("c1", TRUE)
    \/ TaskFetchHousehold("c1", TRUE)
    \/ TogglePress("c1")
    \/ \E i \in 1..MaxInFlight : ToggleRespond("c1", i, TRUE)
    \/ TaskBack("c1")

SpecToggle == InitTask /\ [][NextToggle]_vars
\* getCurrentUser of My Tasks when getSession resolves without a session:
\* setUserId is not called, the [userId] effect has run fetchTasks once with
\* no user and it returned before its try block
MyTasksNoSession(c) ==
    /\ myTasks[c].userId = Null
    /\ myTasks[c].pc = "idle"
    /\ UNCHANGED vars

\* getCurrentUser of People when getSession resolves without a session
PeopleNoSession(c) ==
    /\ people[c].userId = Null
    /\ people[c].pc = "idle"
    /\ UNCHANGED vars

\* Loading flags: the first client holds a session and mounts the two tabs,
\* a household and a task; the second client has no session when its tabs
\* mount. Every backend call may fail. Each request that was sent returns and
\* each effect that is due runs.
LoadingSteps ==
    {"session", "open", "user", "household", "members", "users", "tasks",
     "task", "t_task", "t_household", "m_user", "m_fetch", "p_user", "p_fetch"}

LoadingStep(s) ==
    CASE s = "session" -> GetSession("c1")
      [] s = "open" -> \E h \in HouseholdIds : DetailOpen("c1", h)
      [] s = "user" -> DetailGetCurrentUser("c1")
      [] s = "household" -> \E ok \in BOOLEAN : FetchHousehold("c1", ok)
      [] s = "members" -> \E ok \in BOOLEAN : FetchMembers("c1", ok)
      [] s = "users" -> \E ok \in BOOLEAN : FetchUsers("c1", ok)
      [] s = "tasks" -> \E ok \in BOOLEAN : FetchTasks("c1", ok)
      [] s = "task" -> \E t \in TaskIds : TaskOpen("c1", t)
      [] s = "t_task" -> \E ok \in BOOLEAN : TaskFetchTask("c1", ok)
      [] s = "t_household" -> \E ok \in BOOLEAN : TaskFetchHousehold("c1", ok)
      [] s = "m_user" -> MyTasksGetCurrentUser("c1")
      [] s = "m_fetch" -> \E ok, okTasks \in BOOLEAN : MyTasksFetchReturn("c1", ok, okTasks)
      [] s = "p_user" -> PeopleGetCurrentUser("c1")
      [] s = "p_fetch" -> \E ok, okMembers \in BOOLEAN : PeopleFetchReturn("c1", ok, okMembers)

NextLoading ==
    \/ \E s \in LoadingSteps : LoadingStep(s)
    \/ MyTasksNoSession("c2")
    \/ PeopleNoSession("c2")

SpecLoading ==
    /\ InitTask
    /\ [][NextLoading]_vars
    /\ \A s \in LoadingSteps : WF_vars(LoadingStep(s))

\* My Tasks with a task that has no details: the screen of one client after
\* a fetch has delivered the tasks of one household, one of them stored with
\* details NULL; the user types queries, picks filters and pulls to refresh.
NullDetailsTasks ==
    {TaskRow(1, 1, <<"a">>, NullText, FALSE, "u1", "u1", "high", Null),
     TaskRow(2, 1, <<"x">>, <<"a">>, TRUE, Null, "u1", Null, Null)}

InitNullDetails ==
    /\ users = Users
    /\ households = {SeedHousehold}
    /\ household_members = {TabMember(1, "u1", 1, TRUE)}
    /\ household_invitations = {}
    /\ tasks \in {NullDetailsTasks,
                  NullDetailsTasks \cup {TaskRow(3, 1, <<"b">>, <<>>, FALSE, "u2", "u2", "low", "d1")}}
    /\ nextId = 2
    /\ hscreen = [c \in Clients |-> HInit]
    /\ dscreen = [c \in Clients |-> DInit]
    /\ tscreen = TInit
    /\ myTasks = [c \in Clients |->
                     IF c = "c1"
                     THEN [MInit EXCEPT !.userId = SessionUser(c), !.loading = FALSE,
                                        !.tasks = TransformedTasksOf({1}),
                                        !.filteredTasks = TransformedTasksOf({1}),
                                        !.dirty = TRUE]
                     ELSE MInit]
    /\ people = [c \in Clients |-> PInit]
    /\ auth = [c \in Clients |-> AInit]
    /\ layout = [c \in Clients |-> LInit]

NextNullDetails ==
    \/ \E q \in Queries : ChangeSearch("c1", q)
    \/ \E f \in Filters : SelectFilter("c1", f)
    \/ FilterEffect("c1")
    \/ MyTasksRefresh("c1")
    \/ \E ok, okTasks \in BOOLEAN : MyTasksFetchReturn("c1", ok, okTasks)

SpecNullDetails == InitNullDetails /\ [][NextNullDetails]_vars

-----------------------------------------------------------------------------
(* Claims *)

\* empty or only whitespace, as the claims say it
BlankText(s) == \A i \in 1..Len(s) : s[i] = " "

\* C1 witness: a client has passed the "already a member" check and is about
\* to insert, while the row for that user and household is already there
\* (the other client's insert won).
C1_Witness ==
    \E c \in Clients :
        /\ dscreen[c].pc = "i_insert"
        /\ \E m \in household_members :
               m.user_id = dscreen[c].found /\ m.household_id = dscreen[c].id
        /\ \E d \in Clients \ {c} : dscreen[d].alert = "Success"

\* C3: when the households insert has succeeded and the household_members
\* insert that follows fails, the household row stays, its creator has no
\* membership row for it, the handler ends (no delete, no retry) and the
\* displayed list is unchanged; no households row is ever deleted.
C3_FailedJoin(c) ==
    /\ hscreen[c].pc \in {"s_member", "v2_member", "v3_member"}
    /\ hscreen'[c].pc # hscreen[c].pc
    /\ household_members' = household_members

C3_NoRollback ==
    [][/\ households \subseteq households'
       /\ \A c \in Clients :
            C3_FailedJoin(c) =>
                /\ households' = households
                /\ hscreen[c].data \in HouseholdIds
                /\ ~\E m \in household_members' :
                       m.household_id = hscreen[c].data /\ m.user_id = hscreen[c].cur
                /\ hscreen'[c].pc = "idle"
                /\ hscreen'[c].alert = "Error joining household"
                /\ hscreen'[c].list = hscreen[c].list]_vars

\* C3 witness: a household whose creator has no membership row, the creating
\* client back at rest after the failed join, and the household not listed.
C3_Witness ==
    \E c \in Clients, x \in households :
        /\ hscreen[c].pc = "idle"
        /\ hscreen[c].alert = "Error joining household"
        /\ x.created_by = SessionUser(c)
        /\ ~\E m \in household_members : m.household_id = x.id /\ m.user_id = x.created_by
        /\ \A i \in 1..Len(hscreen[c].list) : hscreen[c].list[i] # x.id

\* C7: createHousehold called with a name that is empty or only whitespace
\* writes no households row and no household_members row, leaves the
\* displayed list as it is and ends at once, in each of the three versions.
C7_BlankPress(c, name) ==
    \/ StatsCreatePress(c, name)
    \/ V2CreatePress(c, name)
    \/ V3CreatePress(c, name)

C7_BlankNameRejected ==
    [][\A c \in Clients, name \in Names :
          (BlankText(name) /\ C7_BlankPress(c, name)) =>
              /\ UNCHANGED backendVars
              /\ hscreen'[c].list = hscreen[c].list
              /\ hscreen'[c].pc = "idle"]_vars

\* C7 witness: a whitespace-only name has been submitted.
C7_Witness ==
    \E c \in Clients :
        /\ hscreen[c].name = <<" ">>
        /\ hscreen[c].pc = "idle"
        /\ hscreen[c].userId # Null


\* C2: in every reachable backend state there is at most one pending
\* household_invitations row per (household, invitee e-mail), whatever the
\* interleaving of the clients' invitation-flow inviteMember; an attempt made
\* while one is pending creates no row and ends in an error alert.
C2_UniquePendingRows ==
    \A i1, i2 \in household_invitations :
        (/\ i1.household_id = i2.household_id
         /\ i1.invitee_email = i2.invitee_email
         /\ i1.status = "pending" /\ i2.status = "pending") => i1 = i2

C2_AttemptWhilePending(c) ==
    /\ dscreen[c].pc \in {"n_pending", "n_insert"}
    /\ PendingFor(dscreen[c].id, Trim(dscreen[c].email)) # {}
    /\ dscreen'[c] # dscreen[c]

C2_UniquePending ==
    /\ []C2_UniquePendingRows
    /\ [][\A c \in Clients :
            C2_AttemptWhilePending(c) =>
                /\ household_invitations' = household_invitations
                /\ \/ /\ dscreen'[c].pc = "idle"
                      /\ dscreen'[c].alert \in {"Error", "Error sending invitation"}
                   \/ /\ dscreen[c].pc = "n_pending"
                      /\ dscreen'[c].pc = "n_insert"]_vars

\* C2 witness: the first client's insert was refused while the second
\* client's invitation for the same household and e-mail is pending.
C2_Witness ==
    /\ dscreen["c1"].pc = "idle"
    /\ dscreen["c1"].alert = "Error sending invitation"
    /\ \E i \in household_invitations :
           /\ i.inviter_id = "u2"
           /\ i.status = "pending"
           /\ i.household_id = dscreen["c1"].id


\* C4: a toggle on the task detail screen writes the status column of that
\* one task and nothing else: every other column of the row, and every other
\* row, is as before; the written status is the negation of the status the
\* screen showed when the button was pressed; and in the local task only
\* status changes, to its negation.
C4_SameButStatus(a, b) == [a EXCEPT !.status = b.status] = b

C4_Press(c) == Len(tscreen'[c].inflight) > Len(tscreen[c].inflight)
C4_Return(c) == Len(tscreen'[c].inflight) < Len(tscreen[c].inflight)

C4_ToggleFrame ==
    [][\A c \in Clients :
        /\ C4_Press(c) =>
              /\ tasks' = tasks
              /\ tscreen'[c].task = tscreen[c].task
              /\ \A l \in tscreen[c].task :
                     tscreen'[c].inflight = Append(tscreen[c].inflight, ~l.status)
        /\ C4_Return(c) =>
              \A l \in tscreen[c].task :
                 \E i \in 1..Len(tscreen[c].inflight), l2 \in tscreen'[c].task :
                    /\ tscreen'[c].inflight = RemoveAt(tscreen[c].inflight, i)
                    /\ tscreen'[c].task = {l2}
                    /\ C4_SameButStatus(l, l2)
                    /\ {t.id : t \in tasks'} = {t.id : t \in tasks}
                    /\ \A t \in tasks, u \in tasks' :
                           t.id = u.id =>
                               IF t.id = l.id THEN C4_SameButStatus(t, u) ELSE t = u
                    /\ IF l2 = l
                       THEN tasks' = tasks
                       ELSE /\ l2.status = ~l.status
                            /\ \A u \in tasks' :
                                   u.id = l.id => u.status = tscreen[c].inflight[i]]_vars

\* C4 witness: the second task (assigned, high priority, with a due date) has
\* been toggled while another press was pending: the local copy and the
\* backend row both show the status that the pending press asked for.
C4_Witness ==
    \E c \in Clients :
        /\ Len(tscreen[c].inflight) = 1
        /\ \E l \in tscreen[c].task, t \in tasks :
               /\ l.id = 2 /\ t.id = 2
               /\ l = t
               /\ l.status = tscreen[c].inflight[1]
               /\ l.priority = "high" /\ l.assignee = "u2" /\ l.due_date = "d1"
        /\ \A d \in Clients \ {c} : tscreen[d].id = NoId


\* ---- C5, C6: the My Tasks filter and search ----

Shown(c) == {myTasks[c].filteredTasks[i] : i \in 1..Len(myTasks[c].filteredTasks)}
Fetched(c) == {myTasks[c].tasks[i] : i \in 1..Len(myTasks[c].tasks)}

C6_SameLetter(a, b) ==
    \/ a = b
    \/ {a, b} \in {{"a", "A"}, {"b", "B"}, {"f", "F"}}

\* q occurs in s at some offset, letters compared without regard to case
C6_OccursIn(q, s) ==
    \E off \in 0..Len(s) :
        /\ off + Len(q) <= Len(s)
        /\ \A i \in 1..Len(q) : C6_SameLetter(q[i], s[off + i])

C6_Matches(t, q) ==
    \/ BlankText(q)
    \/ C6_OccursIn(q, t.title)
    \/ C6_OccursIn(q, t.details)
    \/ C6_OccursIn(q, t.household_name)

C5_Predicate(f, t, u) ==
    /\ f = "my-created" => t.created_by = u
    /\ f = "assigned-to-me" => t.assignee = u
    /\ f = "pending" => t.status = FALSE
    /\ f = "completed" => t.status = TRUE
    /\ f = "high-priority" => t.priority = "high"

\* C5: once the filter effect has run, the displayed list holds, without
\* repetition, exactly the fetched tasks that match the search and satisfy
\* the selected filter's predicate (all: every task; my-created: created_by
\* is the current user; assigned-to-me: assignee is the current user;
\* pending: status false; completed: status true; high-priority: priority
\* high); every fetched task is kept by exactly one of pending and completed.
C5_FilterExact ==
    \A c \in Clients :
        ~myTasks[c].dirty =>
            LET r == myTasks[c] IN
            /\ Len(r.filteredTasks) = Cardinality(Shown(c))
            /\ Shown(c) = {t \in Fetched(c) :
                              /\ C6_Matches(t, r.searchQuery)
                              /\ C5_Predicate(r.selectedFilter, t, r.userId)}
            /\ \A t \in Fetched(c) :
                   CategoryKeeps("pending", t, r.userId)
                       # CategoryKeeps("completed", t, r.userId)

\* C5 witness: with four tasks fetched, high-priority selected and a
\* non-blank query, one task is shown, one high-priority task is hidden by
\* the search and one matching task is hidden by the filter.
C5_Witness ==
    \E c \in Clients :
        LET r == myTasks[c] IN
        /\ ~r.dirty
        /\ r.selectedFilter = "high-priority"
        /\ ~BlankText(r.searchQuery)
        /\ Len(r.tasks) = 4
        /\ Len(r.filteredTasks) = 1
        /\ \E t \in Fetched(c) \ Shown(c) :
               t.priority = "high" /\ ~C6_Matches(t, r.searchQuery)
        /\ \E t \in Fetched(c) \ Shown(c) :
               t.priority # "high" /\ C6_Matches(t, r.searchQuery)

\* C6: once the filter effect has run, every displayed task has the query,
\* compared without regard to case, as a substring of its title, details or
\* household name, or the query is empty or only whitespace; under the filter
\* "all" every such task is displayed, so a blank query keeps every task.
C6_SearchMatch ==
    \A c \in Clients :
        ~myTasks[c].dirty =>
            LET r == myTasks[c] IN
            /\ \A t \in Shown(c) : C6_Matches(t, r.searchQuery)
            /\ r.selectedFilter = "all" =>
                   \A t \in Fetched(c) : C6_Matches(t, r.searchQuery) => t \in Shown(c)
            /\ r.selectedFilter = "all" /\ BlankText(r.searchQuery) =>
                   r.filteredTasks = r.tasks

\* C6 witness: an upper-case query keeps a task through its lower- and
\* mixed-case details only, and drops another task.
C6_Witness ==
    \E c \in Clients :
        LET r == myTasks[c] IN
        /\ ~r.dirty
        /\ r.selectedFilter = "all"
        /\ r.searchQuery = <<"A", "B">>
        /\ \E t \in Shown(c) :
               /\ ~C6_OccursIn(r.searchQuery, t.title)
               /\ ~C6_OccursIn(r.searchQuery, t.household_name)
               /\ t.details # r.searchQuery
        /\ Fetched(c) \ Shown(c) # {}

\* ---- C8, C9: what the People and My Tasks tabs list ----

\* households in which u has an active membership row (user_id = u)
ActiveHouseholdsOf(u) ==
    {m.household_id : m \in {x \in household_members :
                                x.user_id = u /\ x.is_active = TRUE}}

C8_Expected(u) ==
    {[id |-> v,
      household_count |-> Cardinality(ActiveHouseholdsOf(u) \cap ActiveHouseholdsOf(v))] :
        v \in {w \in Users \ {u} : ActiveHouseholdsOf(u) \cap ActiveHouseholdsOf(w) # {}}}

\* C8 (as stated): once fetchPeople has finished without an error alert, the
\* people list holds every other active member of the current user's
\* households exactly once, never the current user, each with the number of
\* shared households as household_count.
C8_PeopleList ==
    \A c \in Clients :
        LET r == people[c] IN
        (r.userId # Null /\ r.pc = "idle" /\ ~r.loading /\ r.alert = Null)
            => r.people = C8_Expected(r.userId)

\* C9 (as stated): once fetchTasks has finished without an error alert, the
\* My Tasks list is the tasks, newest first, of the households in which the
\* current user has an active membership row identified by user_id.
C9_TaskList ==
    \A c \in Clients :
        LET r == myTasks[c] IN
        (r.userId # Null /\ r.pc = "idle" /\ ~r.loading /\ r.alert = Null)
            => r.tasks = TransformedTasksOf(ActiveHouseholdsOf(r.userId))

\* ---- C10: what a failed backend call leads to ----

\* C10 (as stated): whenever a backend call of handleAuth, of the logout, of
\* the household detail fetch or of the households pull-to-refresh has
\* returned an error,
\* the operation has shown an alert and has issued no further backend call.
C10_EveryFailureAlerts ==
    \A c \in Clients :
        /\ dscreen[c].ferr # {} => dscreen[c].falert /\ ~dscreen[c].fafter
        /\ auth[c].err # {} => auth[c].erralert /\ ~auth[c].after
        /\ hscreen[c].rerr # {} => hscreen[c].alert # Null

\* The outcomes of C10 (amended), as they show in the state: only a failed sign-up / sign-in call, a failed sign-out and a
\* failed households select of the detail fetch show an alert and end the
\* operation with no further backend call. A failed members or users query
\* of the detail fetch is followed by the tasks query (after a failed members
\* query the members are shown as empty), a failed tasks query ends the
\* fetch, and none of the three shows an alert. A failed profile lookup or insert of handleAuth shows
\* no error alert: the handler ends with its success alert, and a failed
\* lookup is followed by the insert. A failed pull-to-refresh of the
\* households list ends without an alert and leaves the list as it was.
C10_Outcomes ==
    \A c \in Clients :
        LET d == dscreen[c]
            a == auth[c]
            h == hscreen[c] IN
        /\ "f_household" \in d.ferr =>
               d.falert /\ ~d.fafter /\ d.fpc = "idle" /\ d.alert = "Error"
        /\ d.falert => d.ferr = {"f_household"}
        /\ "f_members" \in d.ferr =>
               d.members = {} /\ (d.fpc = "f_tasks" \/ (d.fpc = "idle" /\ d.fafter))
        /\ "f_users" \in d.ferr =>
               d.fpc = "f_tasks" \/ (d.fpc = "idle" /\ d.fafter)
        /\ "f_tasks" \in d.ferr => d.fpc = "idle"
        /\ "a_auth" \in a.err =>
               /\ a.erralert /\ ~a.after /\ a.pc = "idle"
               /\ a.alert \in {"Sign Up error", "Login error"}
        /\ "a_signout" \in a.err =>
               a.erralert /\ ~a.after /\ a.alert = "Error" /\ a.route = "households"
        /\ a.erralert => a.err \in {{"a_auth"}, {"a_signout"}}
        /\ "a_profile" \in a.err => a.pc = "idle" /\ a.alert = "Sign up successful!"
        /\ "a_lookup" \in a.err => a.pc = "a_insert" \/ (a.after /\ a.alert = "Logged in!")
        /\ "a_insert" \in a.err => a.pc = "idle" /\ a.alert = "Logged in!"
        /\ h.rerr # {} => h.pc = "idle" /\ h.alert = Null

\* C10 (amended): failure paths differ. Only a failed sign-up / sign-in call,
\* a failed sign-out and a failed households select of the detail fetch alert
\* and abandon; the other failed calls of handleAuth and of the detail fetch
\* are passed over without an alert and the operation goes on; a failed
\* pull-to-refresh shows no alert and leaves the households list unchanged.
C10_FailurePaths ==
    /\ []C10_Outcomes
    /\ [][\A c \in Clients :
              (hscreen[c].pc = "r_members" /\ "r_members" \in hscreen'[c].rerr)
                  => hscreen'[c].list = hscreen[c].list]_vars

\* C10 witness: a detail fetch has ended after failed members and tasks
\* queries, a login has ended after a failed lookup and a failed insert, and
\* a pull-to-refresh has ended after a failed membership query.
C10_Witness ==
    /\ \E c \in Clients :
           /\ dscreen[c].ferr = {"f_members", "f_tasks"}
           /\ dscreen[c].fpc = "idle"
           /\ ~dscreen[c].loading
           /\ hscreen[c].rerr = {"r_members"}
    /\ \E c \in Clients :
           /\ auth[c].err = {"a_lookup", "a_insert"}
           /\ auth[c].route = "households"
           /\ SessionUser(c) \notin users

\* ---- C11, C12: handleAuth ----

\* C11 (as stated): whenever the auth screen has navigated to the households
\* tab after a password login, the backend holds a users row whose id is the
\* authenticated user's id.
C11_ProfileAfterLogin ==
    \A c \in Clients :
        auth[c].route = "households" => SessionUser(c) \in users

\* C12: a failed sign-in or sign-up shows its error alert, writes no users
\* row, leaves the route on the auth screen, ends the handler (no call is
\* issued again without a new press) and leaves loading false.
C12_FailedAuth ==
    /\ [](\A c \in Clients :
             "a_auth" \in auth[c].err =>
                 /\ auth[c].pc = "idle"
                 /\ ~auth[c].loading
                 /\ auth[c].route = "auth"
                 /\ auth[c].alert \in {"Sign Up error", "Login error"})
    /\ [][\A c \in Clients :
             (auth[c].pc = "a_auth" /\ "a_auth" \in auth'[c].err) =>
                 /\ users' = users
                 /\ auth'[c].route = auth[c].route
                 /\ auth'[c].isSigningUp = auth[c].isSigningUp]_vars

\* C12 witness: a sign-up has failed for a user without a users row
C12_Witness ==
    \E c \in Clients :
        /\ auth[c].err = {"a_auth"}
        /\ auth[c].isSigningUp
        /\ auth[c].alert = "Sign Up error"
        /\ auth[c].pc = "idle"
        /\ SessionUser(c) \notin users

\* ---- C13: the route guard ----

\* a step in which the guard effect of c ran
C13_GuardRun(c) ==
    /\ layout[c].pending
    /\ layout'[c].events = layout[c].events
    /\ \/ ~layout'[c].pending
       \/ layout'[c].redirected /\ layout'[c].segment # layout[c].segment

\* C13: every run of the guard redirects to (auth) when the user is known to
\* be unauthenticated and the route is outside (auth), to the households tab
\* when the user is known to be authenticated and the route is inside
\* (auth), and nowhere otherwise, in particular not while the state is
\* unknown; a run is due whenever one of the two redirect conditions holds;
\* and a client without a session that is on a route outside (auth) is
\* eventually on (auth) or signed in again.
C13_RouteGuard ==
    /\ [][\A c \in Clients :
             C13_GuardRun(c) =>
                 layout'[c].segment =
                     IF layout[c].isAuthenticated = "out" /\ layout[c].segment # "(auth)"
                     THEN "(auth)"
                     ELSE IF layout[c].isAuthenticated = "in" /\ layout[c].segment = "(auth)"
                     THEN "(tabs)"
                     ELSE layout[c].segment]_vars
    /\ [](\A c \in Clients :
             \/ layout[c].isAuthenticated = "out" /\ layout[c].segment # "(auth)"
             \/ layout[c].isAuthenticated = "in" /\ layout[c].segment = "(auth)"
             => layout[c].pending)
    /\ \A c \in Clients :
          (~layout[c].session /\ layout[c].segment # "(auth)")
              ~> (layout[c].session \/ layout[c].segment = "(auth)")

\* C13 witness: a client that signed out on a detail route has been
\* redirected to (auth) by the guard
C13_Witness ==
    \E c \in Clients :
        /\ ~layout[c].session
        /\ layout[c].events = <<>>
        /\ layout[c].isAuthenticated = "out"
        /\ layout[c].segment = "(auth)"
        /\ layout[c].redirected

\* ---- C14, C15, C16: the households list and its poll ----

\* the list on display holds household h
Listed(c, h) == \E k \in 1..Len(hscreen[c].list) : hscreen[c].list[k] = h

\* C14: while the households screen of a user is mounted with its user id
\* known, a membership row of that user for an existing household leads to
\* that household being on the displayed list, or to the screen being
\* unmounted, with no step of the user other than the poll and its fetches.
C14_PollShowsMembership ==
    \A c \in Clients, h \in 1..MaxHouseholds :
        (/\ hscreen[c].mounted
         /\ hscreen[c].userId # Null
         /\ h \in HouseholdIds
         /\ \E m \in household_members :
                m.user_id = hscreen[c].userId /\ m.household_id = h)
            ~> (Listed(c, h) \/ ~hscreen[c].mounted)

\* C14 witness: the second client's invitation has inserted the row, the
\* first client has pressed nothing, and its list shows the household
C14_Witness ==
    /\ dscreen["c2"].alert = "Success"
    /\ \E m \in household_members : m.user_id = "u1" /\ m.household_id = 1
    /\ hscreen["c1"].mounted
    /\ hscreen["c1"].alert = Null
    /\ Listed("c1", 1)
    /\ hscreen["c1"].inflight = <<>>

\* C15: at most one poll interval is set per households screen and none
\* while the screen is unmounted, and a fetchHouseholds call is started only
\* on a mounted screen.
C15_PollTornDown ==
    /\ [](\A c \in Clients :
             /\ hscreen[c].timers <= 1
             /\ ~hscreen[c].mounted => hscreen[c].timers = 0)
    /\ [][\A c \in Clients :
             Len(hscreen'[c].inflight) > Len(hscreen[c].inflight)
                 => hscreen[c].mounted /\ hscreen'[c].mounted]_vars

\* C15 witness: the screen was unmounted while a fetch was in flight; the
\* interval is cleared and the fetch is still running
C15_Witness ==
    \E c \in Clients :
        /\ ~hscreen[c].mounted
        /\ hscreen[c].timers = 0
        /\ hscreen[c].inflight # <<>>
        /\ \A j \in 1..Len(hscreen[c].inflight) : hscreen[c].inflight[j].dead

\* the same call, whatever has overtaken it
C16_SameCall(f, g) ==
    /\ f.uid = g.uid /\ f.phase = g.phase /\ f.ids = g.ids /\ f.dead = g.dead

\* what call f sets the list to when it returns without an error
C16_Payload(f) ==
    IF f.phase = "members" THEN <<>> ELSE AscendingIds(f.ids \cap HouseholdIds)

\* C16: starting a list request, by the effect, the timer or a refresh,
\* removes no request in flight; a response that arrives on the mounted
\* screen replaces the displayed list by its own payload, whatever else is
\* in flight and whether or not a later request has delivered already, or,
\* when it is an error, shows the alert and leaves the list; a response to a
\* request of an earlier, unmounted instance of the screen changes nothing;
\* in each case the other requests stay in flight.
C16_LastArrivalWins ==
    [][\A c \in Clients :
          LET old == hscreen[c].inflight
              new == hscreen'[c].inflight IN
          (hscreen[c].mounted /\ hscreen'[c].mounted) =>
              /\ Len(new) > Len(old) => SubSeq(new, 1, Len(old)) = old
              /\ Len(new) = Len(old) =>
                     \A j \in 1..Len(old) :
                        /\ new[j].uid = old[j].uid
                        /\ new[j].dead = old[j].dead
                        /\ new[j].overtaken = old[j].overtaken
              /\ hscreen[c].pc = "r_members" /\ hscreen'[c].pc = "idle" => new = old
              /\ Len(new) < Len(old) =>
                     \E i \in 1..Len(old) :
                        /\ Len(new) = Len(old) - 1
                        /\ \A j \in 1..Len(new) :
                               C16_SameCall(new[j], RemoveAt(old, i)[j])
                        /\ \/ ~old[i].dead /\ hscreen'[c].list = C16_Payload(old[i])
                           \/ /\ old[i].dead
                              /\ hscreen'[c].list = hscreen[c].list
                              /\ hscreen'[c].alert = hscreen[c].alert
                           \/ /\ hscreen'[c].alert = "Error fetching households"
                              /\ hscreen'[c].list = hscreen[c].list]_vars

\* C16 witness: every request has completed without an error, the response
\* that arrived last came from a request that a later one had overtaken, and
\* the list lacks the household the user has meanwhile become a member of
C16_Witness ==
    \E c \in Clients :
        /\ hscreen[c].mounted
        /\ hscreen[c].inflight = <<>>
        /\ hscreen[c].pc = "idle"
        /\ hscreen[c].alert = Null
        /\ hscreen[c].stale
        /\ ~Listed(c, 1)
        /\ \E m \in household_members :
               m.user_id = hscreen[c].userId /\ m.household_id = 1

\* C17: an invitation written by the invitation-flow inviteMember is pending
\* and stays in the table unchanged in every later state; no step of any
\* screen writes a household_members row while invitations are sent and the
\* invited user's screens fetch.
C17_StaysPending ==
    /\ [](\A r \in household_invitations : r.status = "pending")
    /\ [][\A r \in household_invitations : r \in household_invitations']_vars
    /\ [][household_invitations # {} => household_members' = household_members]_vars

\* an invitation for the second client's user exists, a later attempt for it
\* was rejected, and that user's households list is being fetched
C17_Witness ==
    /\ \E r \in household_invitations : r.invitee_email = Email(SessionUser("c2"))
    /\ dscreen["c1"].pc = "idle" /\ dscreen["c1"].alert = "Error"
    /\ hscreen["c2"].inflight # <<>>
    /\ ~Listed("c2", 1)

\* C18: every task row carries the id of one existing household, which no
\* step changes while the task exists: a row written by createTask carries
\* the household id of the household screen that created it, and
\* toggleTaskStatus, saveTask and deleteTask leave household_id of every
\* remaining task as it was.
C18_OneHousehold ==
    /\ [](\A t \in tasks : t.household_id \in HouseholdIds)
    /\ [](\A t1, t2 \in tasks : t1.id = t2.id => t1 = t2)
    /\ [][\A t2 \in tasks' :
             IF \E t \in tasks : t.id = t2.id
             THEN \A t \in tasks : t.id = t2.id => t.household_id = t2.household_id
             ELSE \E c \in Clients : /\ dscreen[c].pc = "k_insert"
                                     /\ dscreen'[c].pc = "idle"
                                     /\ t2.household_id = dscreen[c].id]_vars

\* a task created on the screen of the second household has been toggled
\* and edited, and another task has been deleted
C18_Witness ==
    \E t \in tasks :
        /\ t.id > 2
        /\ t.household_id = 2
        /\ t.status = TRUE
        /\ t.title = <<"s">>
        /\ Cardinality(tasks) = 2

\* C19: in every table the PostgreSQL script allows, the two scripts accept
\* the same writes (inserts and status updates), so every sequence accepted
\* by one is accepted by the other; status is limited to the three values in
\* both, and two accepted or two declined invitations of one household and
\* e-mail address can be written under both.
C19_SameContract ==
    \A row \in SqlWrites : PostgresAccepts(row) <=> MySqlAccepts(row)

\* the part of C19 that holds: whatever the MySQL script accepts the
\* PostgreSQL script accepts, and both reject a status outside the three
C19_MySqlWithinPostgres ==
    \A row \in SqlWrites :
        /\ MySqlAccepts(row) => PostgresAccepts(row)
        /\ row.status = "expired" => ~PostgresAccepts(row) /\ ~MySqlAccepts(row)

\* two accepted invitations of one household and e-mail address are in the
\* table
C19_Witness ==
    \E r1, r2 \in household_invitations :
        /\ r1.id # r2.id
        /\ r1.household_id = r2.household_id
        /\ r1.invitee_email = r2.invitee_email
        /\ r1.status = "accepted" /\ r2.status = "accepted"

\* the inviteMember call of client c returns with its success alert
C20_Success(c) ==
    /\ dscreen[c].pc = "i_insert"
    /\ dscreen'[c].pc = "idle"
    /\ dscreen'[c].alert = "Success"

\* C20: no step of the household screen writes household_invitations; a
\* step of the direct-insert inviteMember that succeeds was called with a
\* non-blank e-mail address and name, for a user that has a users row with
\* that address and had no membership row in this household, and adds
\* exactly one household_members row, for that user and this household with
\* the selected role and is_active true; every other step of the screen,
\* every rejected path included, leaves household_members as it was.
C20_DirectInsert ==
    [][\A c \in Clients :
          dscreen'[c] # dscreen[c] =>
              /\ household_invitations' = household_invitations
              /\ IF C20_Success(c)
                 THEN /\ ~BlankText(dscreen[c].email)
                      /\ ~BlankText(dscreen[c].mname)
                      /\ \E u \in users :
                            /\ Email(u) = Trim(dscreen[c].email)
                            /\ ~\E m \in household_members :
                                  m.user_id = u /\ m.household_id = dscreen[c].id
                            /\ \E row \in household_members' :
                                  /\ row \notin household_members
                                  /\ household_members' = household_members \cup {row}
                                  /\ row.user_id = u
                                  /\ row.household_id = dscreen[c].id
                                  /\ row.role = dscreen[c].role
                                  /\ row.is_active = TRUE
                 ELSE household_members' = household_members]_vars

\* a member was added with the selected role from a padded address, and a
\* later call for the same user was rejected at the insert
C20_Witness ==
    /\ \E m \in household_members : m.user_id = "u3" /\ m.role = "viewer"
    /\ Cardinality(household_members) = 2
    /\ \E c \in Clients : dscreen[c].pc = "idle" /\ dscreen[c].alert = "Error"
                          /\ dscreen[c].userId # Null

\* the invitation-flow inviteMember call of client c returns with its
\* success alert
C21_Success(c) ==
    /\ dscreen[c].pc = "n_insert"
    /\ dscreen'[c].pc = "idle"
    /\ dscreen'[c].alert = "Success"

\* the row a successful call of client c has written for user u
C21_Created(c, u) ==
    \E row \in household_invitations' :
        /\ row \notin household_invitations
        /\ household_invitations' = household_invitations \cup {row}
        /\ row.household_id = dscreen[c].id
        /\ row.invitee_email = Email(u)
        /\ row.status = "pending"
        /\ row.inviter_id = dscreen[c].userId
        /\ dscreen[c].userId = SessionUser(c)

\* C21: no step of the household screen writes household_members; a step of
\* the invitation-flow inviteMember that succeeds was called with a
\* non-blank e-mail address of a user that has a users row and no
\* membership row in this household, while no pending invitation of this
\* household and address existed, and adds exactly one pending invitation
\* with the current user as inviter; every other step of the screen, every
\* rejected path included, leaves household_invitations as it was.
C21_FlowInvite ==
    [][\A c \in Clients :
          dscreen'[c] # dscreen[c] =>
              /\ household_members' = household_members
              /\ IF C21_Success(c)
                 THEN /\ ~BlankText(dscreen[c].email)
                      /\ \E u \in users :
                            /\ Email(u) = Trim(dscreen[c].email)
                            /\ ~\E m \in household_members :
                                  m.user_id = u /\ m.household_id = dscreen[c].id
                            /\ PendingFor(dscreen[c].id, Email(u)) = {}
                            /\ C21_Created(c, u)
                 ELSE household_invitations' = household_invitations]_vars

\* what holds of C21: all of it but "that user is not already a member"
C21_ButMembership ==
    [][\A c \in Clients :
          dscreen'[c] # dscreen[c] =>
              /\ household_members' = household_members
              /\ IF C21_Success(c)
                 THEN /\ ~BlankText(dscreen[c].email)
                      /\ \E u \in users :
                            /\ Email(u) = Trim(dscreen[c].email)
                            /\ PendingFor(dscreen[c].id, Email(u)) = {}
                            /\ C21_Created(c, u)
                 ELSE household_invitations' = household_invitations]_vars

\* the createTask call of client c has passed its guard in this step
C22_Accepted(c) == dscreen[c].pc = "idle" /\ dscreen'[c].pc = "k_insert"

\* the insert of client c's createTask returns in this step
C22_Returned(c) == dscreen[c].pc = "k_insert" /\ dscreen'[c].pc = "idle"

\* C22: createTask writes nothing, and starts no insert, when the title is
\* blank or the user id or household id is missing; the selected assignee
\* changes only to null or to a user of the member list shown at that
\* moment, and the insert carries the assignee selected at the press; the
\* inserted task has status false, priority medium and the current user as
\* created_by; on success the task is prepended to the local list, on
\* failure the list and the tasks table are unchanged.
C22_CreateTask ==
    [][\A c \in Clients :
          dscreen'[c] # dscreen[c] =>
              /\ dscreen'[c].selectedAssignee # dscreen[c].selectedAssignee =>
                     dscreen'[c].selectedAssignee \in dscreen[c].members \cup {Null}
              /\ C22_Accepted(c) =>
                     /\ dscreen[c].id # NoId
                     /\ dscreen[c].userId = SessionUser(c)
                     /\ \E p \in dscreen'[c].newTask :
                           /\ ~BlankText(p.title)
                           /\ p.assignee = dscreen[c].selectedAssignee
              /\ IF C22_Returned(c) /\ dscreen'[c].alert # "Error"
                 THEN \E row \in tasks' :
                         /\ \A t \in tasks : t.id # row.id
                         /\ tasks' = tasks \cup {row}
                         /\ row.status = FALSE
                         /\ row.priority = "medium"
                         /\ row.created_by = SessionUser(c)
                         /\ row.household_id = dscreen[c].id
                         /\ \E p \in dscreen[c].newTask :
                               /\ row.assignee = p.assignee
                               /\ row.title = p.title
                         /\ dscreen'[c].taskList = <<row.id>> \o dscreen[c].taskList
                 ELSE /\ tasks' = tasks
                      /\ C22_Returned(c) => dscreen'[c].taskList = dscreen[c].taskList]_vars

\* the first client has created a task assigned to a shown member, which
\* stands first on its list, before the second client's task that it had
\* fetched
C22_Witness ==
    \E t \in tasks :
        /\ t.assignee = "u2"
        /\ t.created_by = "u1"
        /\ Len(dscreen["c1"].taskList) = 2
        /\ dscreen["c1"].taskList[1] = t.id
        /\ dscreen["c1"].alert = "Task Created & Assigned!"
        /\ \E t2 \in tasks : t2.created_by = "u2" /\ dscreen["c1"].taskList[2] = t2.id

\* the local task of client c, as a set of rows
C23_Local(c) == tscreen[c].task

\* C23: a Save press with a blank title starts no update and writes nothing;
\* an accepted press is made in edit mode; a successful update changes
\* title and details of the row with the local task's id to the values
\* pressed and nothing else in the table, sets the same two fields of the
\* local task and leaves edit mode; a failed update leaves the table, the
\* local task and the edit mode as they were.
C23_SaveTask ==
    [][\A c \in Clients :
          LET r == tscreen[c]
              r2 == tscreen'[c] IN
          /\ (r.saves = {} /\ r2.editTitle # r.editTitle /\ BlankText(r2.editTitle)) =>
                 r2.saves = {} /\ tasks' = tasks
          /\ (r.saves = {} /\ r2.saves # {}) =>
                 /\ tasks' = tasks
                 /\ r.editing
                 /\ \A p \in r2.saves : ~BlankText(p.title) /\ p.title = r2.editTitle
                                        /\ p.details = r2.editDetails
          /\ (r.saves # {} /\ r2.saves = {}) =>
                 \E p \in r.saves, local \in r.task :
                     IF r2.alert = "Success"
                     THEN /\ tasks' = {IF t.id = local.id
                                       THEN [t EXCEPT !.title = p.title, !.details = p.details]
                                       ELSE t : t \in tasks}
                          /\ r2.task = {[local EXCEPT !.title = p.title,
                                                      !.details = p.details]}
                          /\ r2.editing = FALSE
                     ELSE /\ tasks' = tasks
                          /\ r2.task = r.task
                          /\ r2.editing = r.editing
                          /\ r2.alert = "Error"]_vars

\* a save has succeeded on a task whose stored status differs from the
\* local one: the row has the new title and its own status
C23_Witness ==
    \E t \in tasks, local \in tscreen["c1"].task :
        /\ t.id = local.id
        /\ t.title = <<"s">> /\ local.title = <<"s">>
        /\ t.details = <<"y">>
        /\ t.status # local.status
        /\ ~tscreen["c1"].editing
        /\ tscreen["c1"].alert = "Success"

\* C24: a delete is issued only by the Delete button of the open prompt, for
\* the local task; Cancel closes the prompt and changes nothing else on the
\* screen or in the table; a row leaves the tasks table only in the step in
\* which a confirmed delete of it succeeds, and then the screen navigates
\* back; after a delete that fails the table is as it was and the screen
\* has not navigated.
C24_DeleteTask ==
    [][/\ \A t \in tasks :
             (\A t2 \in tasks' : t2.id # t.id) =>
                 \E c \in Clients : /\ tscreen[c].deleting = {t.id}
                                    /\ tscreen'[c].deleting = {}
                                    /\ tscreen'[c].gone
       /\ \A c \in Clients :
             LET r == tscreen[c]
                 r2 == tscreen'[c] IN
             /\ (r2.deleting # r.deleting /\ r2.deleting # {}) =>
                    /\ r.prompt /\ ~r2.prompt
                    /\ r2.deleting = {t.id : t \in r.task}
                    /\ tasks' = tasks
             /\ (r.prompt /\ ~r2.prompt /\ r2.deleting = r.deleting) =>
                    /\ r2 = [r EXCEPT !.prompt = FALSE]
                    /\ tasks' = tasks
             /\ (r.deleting # {} /\ r2.deleting = {}) =>
                    IF r2.alert = "Error" /\ ~r2.gone
                    THEN tasks' = tasks
                    ELSE /\ r2.gone
                         /\ tasks' = {t \in tasks : t.id \notin r.deleting}]_vars

\* a delete was cancelled, then one failed, and the task is still there; the
\* other task was deleted and its screen has navigated back
C24_Witness ==
    /\ Cardinality(tasks) = 1
    /\ \E c \in Clients : tscreen[c].gone
    /\ \E c \in Clients, t \in tasks :
          /\ tscreen[c].task = {t}
          /\ tscreen[c].alert = "Error"
          /\ ~tscreen[c].gone /\ ~tscreen[c].prompt /\ tscreen[c].deleting = {}

\* client c is in the stats createHousehold before its households insert
C25_Before(c) == hscreen[c].pc \in {"s_session", "s_lookup", "s_newUser"}

\* C25: the stats createHousehold reaches its households insert only with
\* a users row of the current user in the table, having inserted that row
\* itself when the lookup found none; its steps before that insert (the
\* session check, the lookup, the users insert, and their failures) write
\* no households and no household_members row, and a call that fails there
\* returns without ever reaching the insert.
C25_UserRowFirst ==
    /\ [](\A c \in Clients :
             hscreen[c].pc \in {"s_household", "s_member"} =>
                 hscreen[c].cur = SessionUser(c) /\ hscreen[c].cur \in users)
    /\ [][\A c \in Clients :
             (C25_Before(c) /\ hscreen'[c] # hscreen[c]) =>
                 /\ households' = households
                 /\ household_members' = household_members
                 /\ hscreen'[c].pc \in {"s_lookup", "s_newUser", "s_household", "idle"}
                 /\ hscreen'[c].pc = "idle" => hscreen'[c].alert = "Error" /\ users' = users
                 /\ (hscreen[c].pc = "s_newUser" /\ hscreen'[c].pc = "s_household") =>
                        /\ hscreen[c].cur \notin users
                        /\ users' = users \cup {hscreen[c].cur}
                 /\ hscreen[c].pc # "s_newUser" => users' = users
                 /\ (hscreen[c].pc = "s_lookup" /\ hscreen'[c].pc = "s_household") =>
                        hscreen[c].cur \in users]_vars

\* the second user has a users row and a household of theirs is being
\* created, while a call of the first user with a name typed has failed
C25_Witness ==
    /\ users = Users
    /\ \E h \in households : h.created_by = "u2"
    /\ hscreen["c2"].pc = "s_member"
    /\ hscreen["c1"].pc = "idle" /\ hscreen["c1"].alert = "Error"
       /\ hscreen["c1"].userId # Null /\ ~BlankText(hscreen["c1"].name)

\* C26: in every reachable state the displayed households list of a client
\* holds no household id twice, whatever the interleaving of a successful
\* createHousehold with the responses of the poll and of the refreshes.
C26_NoDuplicates ==
    \A c \in Clients :
        \A i, j \in 1..Len(hscreen[c].list) :
            hscreen[c].list[i] = hscreen[c].list[j] => i = j

\* C27: on a task screen that has no toggle request in flight, every
\* request having succeeded and no other client writing, the status of the
\* local task equals the status stored for that task.
C27_LocalMatchesBackend ==
    \A c \in Clients :
        (tscreen[c].pc = "idle" /\ tscreen[c].inflight = <<>>) =>
            \A local \in tscreen[c].task, t \in tasks :
                t.id = local.id => t.status = local.status

\* C28: on every path (success, error, no session) each screen's loading
\* flag, set when the screen mounts, is eventually cleared.
C28_LoadingEnds ==
    \A c \in Clients :
        /\ myTasks[c].loading ~> ~myTasks[c].loading
        /\ people[c].loading ~> ~people[c].loading
        /\ (dscreen[c].id # NoId /\ dscreen[c].loading) ~> ~dscreen[c].loading
        /\ (tscreen[c].id # NoId /\ tscreen[c].loading) ~> ~tscreen[c].loading

\* with a session the flag of every screen is cleared, whatever fails
C28_WithSession ==
    /\ myTasks["c1"].loading ~> ~myTasks["c1"].loading
    /\ people["c1"].loading ~> ~people["c1"].loading
    /\ (dscreen["c1"].id # NoId /\ dscreen["c1"].loading) ~> ~dscreen["c1"].loading
    /\ (tscreen["c1"].id # NoId /\ tscreen["c1"].loading) ~> ~tscreen["c1"].loading

\* ---- C29: the route guard is stable ----

\* a step in which the guard effect of c called router.replace
C29_Redirects(c) ==
    /\ layout[c].pending
    /\ layout'[c].events = layout[c].events
    /\ layout'[c].redirected
    /\ layout'[c].segment # layout[c].segment

C30_FilterInSync ==
    \A c \in Clients :
        /\ myTasks[c].pc # "crashed"
        /\ ~myTasks[c].dirty =>
              myTasks[c].filteredTasks =
                  Filtered(myTasks[c].tasks, myTasks[c].searchQuery,
                           myTasks[c].selectedFilter, myTasks[c].userId)

\* as long as the effect has not thrown, the display is the filter applied
\* to the current tasks
C30_InSyncUntilThrow ==
    \A c \in Clients :
        (myTasks[c].pc # "crashed" /\ ~myTasks[c].dirty) =>
            myTasks[c].filteredTasks =
                Filtered(myTasks[c].tasks, myTasks[c].searchQuery,
                         myTasks[c].selectedFilter, myTasks[c].userId)

=============================================================================
